---- MODULE Spec2Model ----
(***************************************************************************)
(* A model of GNU diffutils' support routines (src/util.c), of the         *)
(* synchronous signal module (syncsig.c) and of the parts of the diff      *)
(* pipeline they serve.  Each group of variables is the state of one       *)
(* component; each specification below exercises one component and leaves  *)
(* the other groups idle.                                                  *)
(***************************************************************************)
EXTENDS Integers, Sequences, FiniteSets, TLC

VARIABLES
  \* --- LCS / edit-script engine (compareseq, build_script) ---
  lcs_pc,       \* "off" | "start" | "compared" | "scripted"
  fileA,        \* equivalence classes of the lines of file 0
  fileB,        \* equivalence classes of the lines of file 1
  changed0,     \* changed0[i]: line i of file 0 is discarded
  changed1,     \* changed1[j]: line j of file 1 is inserted
  script,       \* the edit script: a sequence of struct change
  \* --- analyze_hunk and the options it reads ---
  ah_pc,                \* "off" | "call" | "done"
  ignore_blank_lines,   \* -B
  ignore_regexp,        \* -I: [fastmap |-> is a pattern compiled, pattern |-> it]
  ignore_white_space,   \* enum DIFF_white_space
  linbuf0,              \* curr.file[0].linbuf: the lines of file 0, as bytes
  linbuf1,              \* curr.file[1].linbuf
  hunk,                 \* the chain of struct change handed to analyze_hunk
  ah_result,            \* [changes, first0, last0, first1, last1] once returned
  \* --- print_script and the hunk builder ---
  ps_pc,        \* "off" | "loop" | "print" | "reconnect" | "done"
  chain,        \* the script: chain[k] is a struct change, link = 0 is nullptr
  ps_next,      \* print_script's next
  ps_this,      \* print_script's this
  ps_end,       \* print_script's end
  hunkfun,      \* "find_change" | "find_hunk"
  context,      \* lines of context, C
  printed,      \* the hunks printfun was handed, each as it saw it
  \* --- util.c: signals, colors, the message queue and output_1_line ---
  pc,                   \* where the main program is
  frames,               \* return addresses: [pc, color_context] of each caller
  color_context,        \* set_color_context's parameter
  interrupt_signal,     \* the pending fatal signal, NoSignal is 0
  stop_signal_count,    \* pending stop signals received
  caught_signals,       \* the set of signals that are caught
  some_signals_caught,  \* whether caught_signals is nonempty
  handler,              \* the process's disposition of each signal
  sigmask,              \* the process's blocked signals
  sigpending,           \* signals sent while blocked and not yet delivered
  proc,                 \* "running" | "stopped" | "killed" | "exited"
  oldset,               \* process_signals' oldset
  stops,                \* process_signals' stops
  sig,                  \* process_signals' sig
  colors_enabled,       \* whether color sequences are written
  last_context,         \* the color context set_color_context wrote last
  out_seq,              \* indicators of a color sequence written so far
  out_color,            \* the context of the last whole sequence in outfile
  paginate,             \* -l
  msg_chain,            \* the messages saved by message
  msgs_printed,         \* the messages written to stdout, in order
  expand_tabs,          \* -t
  tabsize,              \* --tabsize
  left,                 \* output_1_line: bytes left to write (plain mode)
  t_char,               \* output_1_line: *t, or "limit" when t = limit
  t_rest,               \* output_1_line: characters the line may still hold
  flag_format,          \* output_1_line: whether FLAG_FORMAT is nonzero
  counter_proc_signals, \* output_1_line: iterations since the last poll
  column,               \* output_1_line: column within the tab stop
  tab,                  \* output_1_line: tab stops passed
  written,              \* output_1_line: what the last fwrite returned
  to_write,             \* output_1_line: what the last fwrite was asked
  \* history variables of the util.c group
  since_poll,           \* [bytes, chars] output_1_line handled since
                        \* process_signals was last called
  steps,                \* what process_signals did in this iteration
  recorded,             \* the terminating signals sighandler stored, in order
  raised,               \* the signal process_signals raised last
  deliveries,           \* signals sent to the process so far
  handled,              \* handler executions so far
  \* --- syncsig.c and the process that uses it ---
  sync_pc,                \* where the program that uses syncsig is
  installed,              \* "no" | "yes" | "undone": syncsig_install and
                          \* syncsig_uninstall calls so far
  signal_count,           \* pending signals received, for each signal
  possible_signal_count,  \* if false, signal_count is all zero
  sync_caught_signals,    \* syncsig.c's caught_signals
  oldact,                 \* actions before syncsig_install was called
  sync_handler,           \* the process's disposition of each signal
  sync_sigmask,           \* the process's blocked signals
  sync_sigpending,        \* signals sent while blocked, not yet delivered
  sync_proc,              \* "running" | "stopped" | "killed"
  poll_sig,               \* syncsig_poll's sig
  poll_i,                 \* syncsig_poll's i
  poll_oldset,            \* syncsig_poll's oldset
  \* history variables of the syncsig group
  sync_recorded,          \* deliveries the handler recorded, for each signal
  sync_returned,          \* polls that returned each signal
  sync_deliveries,        \* signals sent to the process so far
  \* the build, and syncsig_deliver
  sa_nocldstop,           \* whether the sigaction machinery is present
  deliver_sig,            \* syncsig_deliver's sig
  act,                    \* syncsig_deliver's act
  install_flags,          \* history: the flags syncsig_install was given
  pre_install,            \* history: the dispositions before syncsig_install
  deliver_arg,            \* history: the argument of syncsig_deliver
  deliver_before,         \* history: the dispositions at the call of syncsig_deliver
  raised_as,              \* history: what syncsig_deliver raised, and under which disposition
  \* --- util.c: line numbers (translate_line_number and its callers) ---
  range_pc,     \* "off" | "call" | "returned" | "trapped"
  range_call,   \* the function called and its arguments
  range_ret,    \* what the function returned or stored, and what it printed
  wrapped,      \* history: an addition left the range of lin
  \* --- util.c: print_1_line_nl ---
  nl_pc,        \* "off" | "call" | "returned"
  nl_call,      \* the arguments of print_1_line_nl and the options it reads
  nl_out,       \* what print_1_line_nl wrote to outfile
  \* --- util.c: the color palette and begin_output ---
  pal_pc,           \* "off" | "options" | "compare" | "output" | "printed"
  color_palette,    \* [null, str]: the palette still to be parsed
  pal_colors_style, \* NEVER, AUTO or ALWAYS
  pal_output_is_tty, \* whether the output is, or is presumed, a terminal
  pal_colors_enabled, \* colors_enabled, as check_color_output leaves it
  color_indicator,  \* the strings of the indicators
  pal_stderr,       \* the diagnostics written so far
  pal_diffs,        \* the diffs written so far: whether each was colored
  pal_files,        \* comparisons still to be made
  palette_given,    \* history: the argument of --palette
  \* --- util.c: perror_with_name, pfatal_with_name and fatal ---
  errno,            \* errno
  err_stderr,       \* what error () wrote: [errnum, text] of each report
  exit_status,      \* the status the process exited with, or "none"
  at_entry,         \* history: the function called last and the state it found
  \* --- util.c: message and print_message_queue with the arguments ---
  mq_pc,    \* "off" | "run" | "printed"
  mq_paginate,    \* paginate
  sdiff_merge_assist,    \* sdiff_merge_assist
  mq_chain,    \* msg_chain: the struct msg queued, each [msgid, argbytes, args]
  mq_stdout,    \* what was written to stdout, one entry per putchar or printf
  arg_buf,    \* the caller's buffers, which the arguments of message point into
  mq_calls,   \* history: the calls of message, with what the buffers held then
  \* --- reading the files under -i and comparing them (spec 4.1) ---
  case_pc,    \* "off" | "read" | "classified" | "compared" | "exited"
  ignore_case,    \* -i
  utf8_locale,    \* whether the locale is a UTF-8 locale
  raw_files,    \* the two inputs: the lines as read, each a sequence of characters
  equivs,    \* the equivalence class of every line, per input
  case_script,    \* the Change chain of the comparison
  case_out,    \* what was written to the output
  case_status,   \* the exit status, or "none"
  \* --- util.c: setup_output, begin_output and finish_output with the pr process ---
  o_pc,    \* "off" | "compare" | "diff" | "waitpid" | "exited"
  o_last,    \* history: the function that ran last
  outfile,    \* "nullptr" | "stdout" | "pipe"
  o_paginate,    \* paginate
  have_working_fork,    \* HAVE_WORKING_FORK
  currently_recursive,    \* currently_recursive
  output_style,    \* output_style
  pr,    \* the pr process: state "none" | "running" | "ended", and its wait status
  pr_started,    \* history: the pr processes started for this comparison
  pipe_open,    \* whether the write end of the pipe to pr is open
  ferr,    \* ferror (outfile)
  o_headers,    \* history: the headers printed for this comparison
  o_lines,    \* lines of diff written for this comparison
  o_stderr,    \* what error () wrote: [errnum, text] of each report
  o_status,    \* the status the process exited with, or "none"
  begins,    \* history: calls of begin_output for this comparison
  comparisons,   \* comparisons made so far
  \* --- get_funky_string of util.c, step by step on the palette buffer ---
  fk_state,    \* "off" | ST_GND .. ST_ERROR | "returned"
  fk_buf,    \* the bytes of the palette buffer, the terminating NUL included
  fk_p,    \* p, an offset into fk_buf
  fk_q,    \* q, an offset into fk_buf
  fk_num,    \* num, a char
  fk_call    \* [src, dest, equals_end, input] as get_funky_string was called

lcsVars == <<lcs_pc, fileA, fileB, changed0, changed1, script>>
hunkVars == <<ah_pc, ignore_blank_lines, ignore_regexp, ignore_white_space,
              linbuf0, linbuf1, hunk, ah_result>>

scriptVars == <<ps_pc, chain, ps_next, ps_this, ps_end, hunkfun, context, printed>>

ctlVars == <<pc, frames, color_context>>
flagVars == <<interrupt_signal, stop_signal_count>>
kernelVars == <<handler, sigmask, sigpending, proc>>
catchVars == <<caught_signals, some_signals_caught>>
localVars == <<oldset, stops, sig>>
colorVars == <<colors_enabled, last_context, out_seq, out_color>>
msgVars == <<paginate, msg_chain, msgs_printed>>
lineVars == <<expand_tabs, tabsize, left, t_char, t_rest, flag_format,
              counter_proc_signals, column, tab, written, to_write, since_poll>>
histVars == <<steps, recorded, raised, deliveries, handled>>
sigVars == <<ctlVars, flagVars, kernelVars, catchVars, localVars, colorVars,
             msgVars, lineVars, histVars>>

syncVars == <<sync_pc, installed, signal_count, possible_signal_count,
              sync_caught_signals, oldact, sync_handler, sync_sigmask,
              sync_sigpending, sync_proc, poll_sig, poll_i, poll_oldset,
              sync_recorded, sync_returned, sync_deliveries,
              sa_nocldstop, deliver_sig, act, install_flags, pre_install,
              deliver_arg, deliver_before, raised_as>>
deliverVars == <<sa_nocldstop, deliver_sig, act, install_flags, pre_install,
                 deliver_arg, deliver_before, raised_as>>

rangeVars == <<range_pc, range_call, range_ret, wrapped>>

nlVars == <<nl_pc, nl_call, nl_out>>

palVars == <<pal_pc, color_palette, pal_colors_style, pal_output_is_tty,
             pal_colors_enabled, color_indicator, pal_stderr, pal_diffs,
             pal_files, palette_given>>

fatalVars == <<errno, err_stderr, exit_status, at_entry>>

mqVars == <<mq_pc, mq_paginate, sdiff_merge_assist, mq_chain, mq_stdout, arg_buf, mq_calls>>

caseVars == <<case_pc, ignore_case, utf8_locale, raw_files, equivs, case_script, case_out, case_status>>

outVars == <<o_pc, o_last, outfile, o_paginate, have_working_fork, currently_recursive, output_style, pr, pr_started, pipe_open, ferr, o_headers, o_lines, o_stderr, o_status, begins, comparisons>>

funkyVars == <<fk_state, fk_buf, fk_p, fk_q, fk_num, fk_call>>

vars == <<lcsVars, hunkVars, scriptVars, sigVars, syncVars, rangeVars, nlVars, palVars, fatalVars, mqVars, caseVars, outVars, funkyVars>>

OthersThanLcs == <<hunkVars, scriptVars, sigVars, syncVars, rangeVars, nlVars, palVars, fatalVars, mqVars, caseVars, outVars, funkyVars>>
OthersThanHunk == <<lcsVars, scriptVars, sigVars, syncVars, rangeVars, nlVars, palVars, fatalVars, mqVars, caseVars, outVars, funkyVars>>
OthersThanScript == <<lcsVars, hunkVars, sigVars, syncVars, rangeVars, nlVars, palVars, fatalVars, mqVars, caseVars, outVars, funkyVars>>
OthersThanSig == <<lcsVars, hunkVars, scriptVars, syncVars, rangeVars, nlVars, palVars, fatalVars, mqVars, caseVars, outVars, funkyVars>>
OthersThanSync == <<lcsVars, hunkVars, scriptVars, sigVars, rangeVars, nlVars, palVars, fatalVars, mqVars, caseVars, outVars, funkyVars>>
OthersThanRange == <<lcsVars, hunkVars, scriptVars, sigVars, syncVars, nlVars, palVars, fatalVars, mqVars, caseVars, outVars, funkyVars>>
OthersThanNl == <<lcsVars, hunkVars, scriptVars, sigVars, syncVars, rangeVars, palVars, fatalVars, mqVars, caseVars, outVars, funkyVars>>
OthersThanPal == <<lcsVars, hunkVars, scriptVars, sigVars, syncVars, rangeVars, nlVars, fatalVars, mqVars, caseVars, outVars, funkyVars>>
OthersThanFatal == <<lcsVars, hunkVars, scriptVars, sigVars, syncVars, rangeVars, nlVars, palVars, mqVars, caseVars, outVars, funkyVars>>
OthersThanSigFatal == <<lcsVars, hunkVars, scriptVars, syncVars, rangeVars, nlVars, palVars, mqVars, caseVars, outVars, funkyVars>>
OthersThanMq == <<lcsVars, hunkVars, scriptVars, sigVars, syncVars, rangeVars, nlVars, palVars, fatalVars, caseVars, outVars, funkyVars>>
OthersThanCase == <<lcsVars, hunkVars, scriptVars, sigVars, syncVars, rangeVars, nlVars, palVars, fatalVars, mqVars, outVars, funkyVars>>
OthersThanOut == <<lcsVars, hunkVars, scriptVars, sigVars, syncVars, rangeVars, nlVars, palVars, fatalVars, mqVars, caseVars, funkyVars>>
OthersThanFunky == <<lcsVars, hunkVars, scriptVars, sigVars, syncVars, rangeVars, nlVars, palVars, fatalVars, mqVars, caseVars, outVars>>

----------------------------------------------------------------------------
(* Helpers *)

Min(a, b) == IF a <= b THEN a ELSE b

\* All sequences over S of length at most n.
SeqsUpTo(S, n) == UNION { [1..k -> S] : k \in 0..n }

----------------------------------------------------------------------------
(***************************************************************************)
(* 4.2 LCS / edit-script engine.  The engine's source (analyze.c and the   *)
(* diffseq template) is not part of src/; it is modelled from the          *)
(* specification: a minimum-size set of deletions and insertions, with     *)
(* deletions preferred before insertions at ambiguous boundaries, held as  *)
(* two boolean arrays and then compressed into runs.                       *)
(***************************************************************************)

MaxLen == 3          \* longest input file, in lines
MaxClass == 2        \* number of distinct equivalence classes

Classes == 1..MaxClass

\* Cost of the cheapest edit script turning a[i..] into b[j..].
RECURSIVE EditDistance(_, _, _, _)
EditDistance(a, b, i, j) ==
  IF i > Len(a) THEN Len(b) - j + 1
  ELSE IF j > Len(b) THEN Len(a) - i + 1
  ELSE IF a[i] = b[j] THEN EditDistance(a, b, i + 1, j + 1)
  ELSE 1 + Min(EditDistance(a, b, i + 1, j), EditDistance(a, b, i, j + 1))

\* The path through the edit graph from (i, j): a diagonal move where the
\* lines are equal, otherwise a deletion if that is no dearer than an
\* insertion.  c0 and c1 collect the discarded and the inserted lines.
RECURSIVE ShortestPath(_, _, _, _, _, _)
ShortestPath(a, b, i, j, c0, c1) ==
  IF i > Len(a) THEN [c0 |-> c0, c1 |-> [k \in 1..Len(b) |-> c1[k] \/ k >= j]]
  ELSE IF j > Len(b) THEN [c0 |-> [k \in 1..Len(a) |-> c0[k] \/ k >= i], c1 |-> c1]
  ELSE IF a[i] = b[j] THEN ShortestPath(a, b, i + 1, j + 1, c0, c1)
  ELSE IF EditDistance(a, b, i + 1, j) <= EditDistance(a, b, i, j + 1)
       THEN ShortestPath(a, b, i + 1, j, [c0 EXCEPT ![i] = TRUE], c1)
       ELSE ShortestPath(a, b, i, j + 1, c0, [c1 EXCEPT ![j] = TRUE])

\* A mutation of compareseq: it takes a diagonal wherever both files still
\* have a line, equal or not.
RECURSIVE DiagonalAlways(_, _, _, _, _, _)
DiagonalAlways(a, b, i, j, c0, c1) ==
  IF i > Len(a) THEN [c0 |-> c0, c1 |-> [k \in 1..Len(b) |-> c1[k] \/ k >= j]]
  ELSE IF j > Len(b) THEN [c0 |-> [k \in 1..Len(a) |-> c0[k] \/ k >= i], c1 |-> c1]
  ELSE DiagonalAlways(a, b, i + 1, j + 1, c0, c1)

compareseq_diagonal_always(a, b) ==
  DiagonalAlways(a, b, 1, 1, [k \in 1..Len(a) |-> FALSE], [k \in 1..Len(b) |-> FALSE])

compareseq(a, b) ==
  ShortestPath(a, b, 1, 1, [k \in 1..Len(a) |-> FALSE], [k \in 1..Len(b) |-> FALSE])

\* Length of the run of TRUE flags of c that starts at 1-based position i.
RECURSIVE RunLength(_, _)
RunLength(c, i) == IF i <= Len(c) /\ c[i] THEN 1 + RunLength(c, i + 1) ELSE 0

\* build_script: scan both flag arrays from the start; where either file has
\* a changed line, emit one struct change covering the whole run in both
\* files.  i0 and i1 are 0-based line numbers, as in struct change.
RECURSIVE BuildFrom(_, _, _, _)
BuildFrom(c0, c1, i0, i1) ==
  IF i0 >= Len(c0) /\ i1 >= Len(c1) THEN <<>>
  ELSE LET d == RunLength(c0, i0 + 1)
           n == RunLength(c1, i1 + 1)
       IN IF d + n > 0
          THEN <<[line0 |-> i0, line1 |-> i1, deleted |-> d, inserted |-> n]>>
               \o BuildFrom(c0, c1, i0 + d + 1, i1 + n + 1)
          ELSE BuildFrom(c0, c1, i0 + 1, i1 + 1)

build_script(c0, c1) == BuildFrom(c0, c1, 0, 0)

\* The value 0 of a signal variable: no signal.
NoSignal == "0"

\* enum color_context.
RESET_CONTEXT == "RESET_CONTEXT"

\* The util.c group when no specification about it runs.
IdleSig ==
  /\ pc = "off" /\ frames = <<>> /\ color_context = RESET_CONTEXT
  /\ interrupt_signal = NoSignal /\ stop_signal_count = 0
  /\ caught_signals = {} /\ some_signals_caught = FALSE
  /\ handler = <<>> /\ sigmask = {} /\ sigpending = {} /\ proc = "off"
  /\ oldset = {} /\ stops = 0 /\ sig = NoSignal
  /\ colors_enabled = FALSE /\ last_context = RESET_CONTEXT
  /\ out_seq = <<>> /\ out_color = RESET_CONTEXT
  /\ paginate = FALSE /\ msg_chain = <<>> /\ msgs_printed = <<>>
  /\ expand_tabs = FALSE /\ tabsize = 1 /\ left = 0 /\ t_char = "limit"
  /\ t_rest = 0 /\ flag_format = FALSE /\ counter_proc_signals = 0
  /\ column = 0 /\ tab = 0 /\ written = 0 /\ to_write = 0
  /\ since_poll = [bytes |-> 0, chars |-> 0]
  /\ steps = <<>> /\ recorded = <<>> /\ raised = NoSignal
  /\ deliveries = 0 /\ handled = 0

\* The syncsig group when no specification about it runs.
IdleSync ==
  /\ sync_pc = "off" /\ installed = "no" /\ signal_count = <<>> /\ possible_signal_count = FALSE
  /\ sync_caught_signals = {} /\ oldact = <<>> /\ sync_handler = <<>>
  /\ sync_sigmask = {} /\ sync_sigpending = {} /\ sync_proc = "off"
  /\ poll_sig = NoSignal /\ poll_i = 0 /\ poll_oldset = {}
  /\ sync_recorded = <<>> /\ sync_returned = <<>> /\ sync_deliveries = 0
  /\ sa_nocldstop = TRUE /\ deliver_sig = NoSignal /\ act = "SIG_DFL"
  /\ install_flags = {} /\ pre_install = <<>> /\ deliver_arg = NoSignal
  /\ deliver_before = <<>> /\ raised_as = <<>>

IdleMq ==
  mq_pc = "off" /\ mq_paginate = FALSE /\ sdiff_merge_assist = FALSE /\ mq_chain = <<>> /\ mq_stdout = <<>> /\ arg_buf = <<>> /\ mq_calls = <<>>

IdleCase ==
  case_pc = "off" /\ ignore_case = FALSE /\ utf8_locale = FALSE /\ raw_files = <<>> /\ equivs = <<>> /\ case_script = <<>> /\ case_out = <<>> /\ case_status = "none"

IdleOut ==
  o_pc = "off" /\ o_last = "none" /\ outfile = "nullptr" /\ o_paginate = FALSE /\ have_working_fork = TRUE /\ currently_recursive = FALSE /\ output_style = "OUTPUT_NORMAL" /\ pr = [state |-> "none", exited |-> FALSE, status |-> 0] /\ pr_started = 0 /\ pipe_open = FALSE /\ ferr = FALSE /\ o_headers = <<>> /\ o_lines = 0 /\ o_stderr = <<>> /\ o_status = "none" /\ begins = 0 /\ comparisons = 0

IdleFunky ==
  fk_state = "off" /\ fk_buf = <<>> /\ fk_p = 0 /\ fk_q = 0 /\ fk_num = 0 /\ fk_call = <<>>

IdleRange ==
  /\ range_pc = "off" /\ range_call = <<>> /\ range_ret = <<>> /\ wrapped = FALSE

IdleNl ==
  /\ nl_pc = "off" /\ nl_call = <<>> /\ nl_out = <<>>

IdlePal ==
  /\ pal_pc = "off" /\ color_palette = <<>> /\ pal_colors_style = "NEVER"
  /\ pal_output_is_tty = FALSE /\ pal_colors_enabled = FALSE
  /\ color_indicator = <<>> /\ pal_stderr = <<>> /\ pal_diffs = <<>>
  /\ pal_files = 0 /\ palette_given = <<>>

IdleFatal ==
  /\ errno = "0" /\ err_stderr = <<>> /\ exit_status = "none" /\ at_entry = <<>>

IdleHunk ==
  /\ ah_pc = "off"
  /\ ignore_blank_lines = FALSE
  /\ ignore_regexp = [fastmap |-> FALSE, pattern |-> <<>>]
  /\ ignore_white_space = "IGNORE_NO_WHITE_SPACE"
  /\ linbuf0 = <<>>
  /\ linbuf1 = <<>>
  /\ hunk = <<>>
  /\ ah_result = [changes |-> {}, first0 |-> 0, last0 |-> 0, first1 |-> 0, last1 |-> 0]

IdleScript ==
  /\ ps_pc = "off"
  /\ chain = <<>>
  /\ ps_next = 0
  /\ ps_this = 0
  /\ ps_end = 0
  /\ hunkfun = "find_change"
  /\ context = 0
  /\ printed = <<>>

InitLcs ==
  /\ lcs_pc = "start"
  /\ fileA \in SeqsUpTo(Classes, MaxLen)
  /\ fileB \in SeqsUpTo(Classes, MaxLen)
  /\ changed0 = <<>>
  /\ changed1 = <<>>
  /\ script = <<>>

IdleLcs ==
  /\ lcs_pc = "off"
  /\ fileA = <<>>
  /\ fileB = <<>>
  /\ changed0 = <<>>
  /\ changed1 = <<>>
  /\ script = <<>>

\* diff_2_files, first half: run the engine on the classified lines.
diff_2_files_compare ==
  /\ lcs_pc = "start"
  /\ LET r == compareseq(fileA, fileB)
     IN /\ changed0' = r.c0
        /\ changed1' = r.c1
  /\ lcs_pc' = "compared"
  /\ UNCHANGED <<fileA, fileB, script>>
  /\ UNCHANGED OthersThanLcs

\* diff_2_files, second half: compress the flags into the Change chain.
diff_2_files_script ==
  /\ lcs_pc = "compared"
  /\ script' = build_script(changed0, changed1)
  /\ lcs_pc' = "scripted"
  /\ UNCHANGED <<fileA, fileB, changed0, changed1>>
  /\ UNCHANGED OthersThanLcs

NextLcs ==
  \/ diff_2_files_compare
  \/ diff_2_files_script

InitSpecLcs == IdleFunky /\ IdleOut /\ IdleCase /\ IdleMq /\ IdleFatal /\ IdlePal /\ IdleNl /\ IdleRange /\ IdleSig /\ IdleSync /\ IdleHunk /\ IdleScript /\ InitLcs

SpecLcs == InitSpecLcs /\ [][NextLcs]_vars

\* The lines of seq numbered from..to (1-based, empty when to < from).
Lines(seq, from, to) == IF to < from THEN <<>> ELSE SubSeq(seq, from, to)

\* Apply an edit script to a: copy the lines before each change, drop
\* the deleted lines, insert the lines of b the change names.
RECURSIVE ApplyFrom(_, _, _, _, _)
ApplyFrom(a, b, sc, k, pos0) ==
  IF k > Len(sc) THEN Lines(a, pos0 + 1, Len(a))
  ELSE Lines(a, pos0 + 1, sc[k].line0)
       \o Lines(b, sc[k].line1 + 1, sc[k].line1 + sc[k].inserted)
       \o ApplyFrom(a, b, sc, k + 1, sc[k].line0 + sc[k].deleted)

ApplyScript(a, b, sc) == ApplyFrom(a, b, sc, 1, 0)

\* C1: for all line sequences A and B, deleting from A the lines the edit
\* script marks as deleted and inserting, in order, the lines of B it marks
\* as inserted yields exactly B.
C1_ScriptTransformsAIntoB ==
  lcs_pc = "scripted" => ApplyScript(fileA, fileB, script) = fileB

\* A script with a replacement and an untouched line has been produced.
C1_Witness ==
  /\ lcs_pc = "scripted"
  /\ Len(script) >= 1
  /\ \E k \in 1..Len(script) : script[k].deleted > 0 /\ script[k].inserted > 0
  /\ \E i \in 1..Len(fileA) : ~changed0[i]

----------------------------------------------------------------------------
(***************************************************************************)
(* 4.4 Triviality filter: analyze_hunk (util.c).                           *)
(*                                                                         *)
(* A line is the sequence of its bytes, its newline included; only the     *)
(* last line of a file may lack the newline.  The input buffer always      *)
(* holds a newline after the last byte of a file, so the byte at the end   *)
(* of an incomplete line reads as a newline too.                           *)
(***************************************************************************)

MaxHunkLines == 2    \* deleted plus inserted lines of one hunk

NL == "\n"

\* The complete lines the files are made of: empty, white space only,
\* text, text after white space, text before white space.
CompleteLines ==
  { <<NL>>, <<" ", NL>>, <<"x", NL>>, <<" ", "x", NL>>, <<"x", " ", NL>> }

\* An unchanged line, between two changes of a hunk.
CommonLine == <<"c", NL>>

\* The patterns -I may be given: here, one literal character each.
Patterns == { <<"x">>, <<" ">> }

\* enum DIFF_white_space of diff.h, in its order.
DIFF_white_space ==
  << "IGNORE_NO_WHITE_SPACE", "IGNORE_TAB_EXPANSION", "IGNORE_TRAILING_SPACE",
     "IGNORE_TAB_EXPANSION_AND_TRAILING_SPACE", "IGNORE_SPACE_CHANGE",
     "IGNORE_ALL_SPACE" >>

\* The value of an enumerator.
EnumValue(mode) == CHOOSE k \in 1..Len(DIFF_white_space) : DIFF_white_space[k] = mode

\* enum changes of diff.h: UNCHANGED, OLD, NEW and CHANGED = OLD | NEW, as
\* sets of bits (NEW and UNCHANGED are words of TLA+, hence the prefix).
ch_UNCHANGED == {}
ch_OLD == {"OLD"}
ch_NEW == {"NEW"}
ch_CHANGED == ch_OLD \cup ch_NEW

\* *p for p an offset into a line: beyond the line's last byte lies the
\* newline that ends the buffer.
ByteAt(line, p) == IF p < Len(line) THEN line[p + 1] ELSE NL

\* newline - line: lastbyte + (*lastbyte != '\n') is the offset of the
\* line's newline, or of the byte after an incomplete line.
NewlineOffset(line) ==
  LET lastbyte == Len(line) - 1
  IN IF ByteAt(line, lastbyte) # NL THEN lastbyte + 1 ELSE lastbyte

c32isspace(ch) == ch = " "

\* The loop "while (*p != '\n')" of analyze_hunk: the offset p is left at.
RECURSIVE SkipWhiteSpace(_, _, _)
SkipWhiteSpace(line, p, skip_leading_white_space) ==
  IF ByteAt(line, p) = NL THEN p
  ELSE IF ~c32isspace(ByteAt(line, p))
       THEN (IF ~skip_leading_white_space THEN 0 ELSE p)
       ELSE SkipWhiteSpace(line, p + 1, skip_leading_white_space)

\* re_search (pattern, line, len, 0, len): the offset of the first match
\* of the literal pattern in the len bytes of the line, or -1.
RECURSIVE SearchFrom(_, _, _, _)
SearchFrom(pattern, line, len, start) ==
  IF start + Len(pattern) > len THEN -1
  ELSE IF \A k \in 1..Len(pattern) : line[start + k] = pattern[k] THEN start
  ELSE SearchFrom(pattern, line, len, start + 1)

\* The text of a line as the white-space options fold it for comparison:
\* without any white space, with runs collapsed and the ends trimmed, with
\* trailing white space dropped, or as it is.
RECURSIVE DropLeadingSpace(_)
DropLeadingSpace(c) ==
  IF c # <<>> /\ c[1] = " " THEN DropLeadingSpace(Tail(c)) ELSE c

RECURSIVE DropTrailingSpace(_)
DropTrailingSpace(c) ==
  IF c # <<>> /\ c[Len(c)] = " "
  THEN DropTrailingSpace(SubSeq(c, 1, Len(c) - 1)) ELSE c

RECURSIVE CollapseSpace(_)
CollapseSpace(c) ==
  IF Len(c) < 2 THEN c
  ELSE IF c[1] = " " /\ c[2] = " " THEN CollapseSpace(Tail(c))
  ELSE <<c[1]>> \o CollapseSpace(Tail(c))

FoldWhiteSpace(c) ==
  CASE ignore_white_space = "IGNORE_ALL_SPACE" ->
         SelectSeq(c, LAMBDA ch : ch # " ")
    [] ignore_white_space = "IGNORE_SPACE_CHANGE" ->
         CollapseSpace(DropLeadingSpace(DropTrailingSpace(c)))
    [] ignore_white_space \in {"IGNORE_TRAILING_SPACE",
                               "IGNORE_TAB_EXPANSION_AND_TRAILING_SPACE"} ->
         DropTrailingSpace(c)
    [] OTHER -> c

\* A variant that searches the text of the line after white-space folding.
re_search_after_folding(pattern, line, len) ==
  LET folded == FoldWhiteSpace(SubSeq(line, 1, len))
  IN SearchFrom(pattern, folded, Len(folded), 0)

re_search(pattern, line, len) == SearchFrom(pattern, line, len, 0)

trivial_length(ibl) == (IF ibl THEN 1 ELSE 0) - 1

\* A mutation: white space is skipped only from IGNORE_SPACE_CHANGE on.
skip_white_space_from_space_change(ibl, ws) ==
  ibl /\ EnumValue("IGNORE_SPACE_CHANGE") <= EnumValue(ws)

skip_white_space(ibl, ws) ==
  ibl /\ EnumValue("IGNORE_TRAILING_SPACE") <= EnumValue(ws)

skip_leading_white_space(ibl, ws) ==
  skip_white_space(ibl, ws) /\ EnumValue("IGNORE_SPACE_CHANGE") <= EnumValue(ws)

\* The body of either for-loop of analyze_hunk for one line: TRUE when the
\* line makes the hunk non-trivial.
LineIsNotTrivial(line, ibl, re, ws) ==
  LET newline == NewlineOffset(line)
      len == newline
      p == IF skip_white_space(ibl, ws)
           THEN SkipWhiteSpace(line, 0, skip_leading_white_space(ibl, ws))
           ELSE 0
  IN /\ newline - p # trivial_length(ibl)
     /\ (~re.fastmap \/ re_search(re.pattern, line, len) < 0)

\* "for (lin i = from; i <= to && trivial; i++)": trivial after the loop.
RECURSIVE ScanLines(_, _, _, _, _, _, _)
ScanLines(linbuf, i, to, trivial, ibl, re, ws) ==
  IF ~(i <= to /\ trivial) THEN trivial
  ELSE ScanLines(linbuf, i + 1, to,
                 IF LineIsNotTrivial(linbuf[i + 1], ibl, re, ws) THEN FALSE ELSE trivial,
                 ibl, re, ws)

\* A mutation: trivial starts from -B alone, so a hunk is never ignored on
\* account of -I.
initial_trivial_blank_only(ibl, re) == ibl

initial_trivial(ibl, re) == ibl \/ re.fastmap

\* The do-while loop over the chain; st is the loop's state.
RECURSIVE AnalyzeFrom(_, _, _, _, _, _, _, _)
AnalyzeFrom(h, k, st, lb0, lb1, ibl, re, ws) ==
  LET next == h[k]
      l0 == next.line0 + next.deleted - 1
      l1 == next.line1 + next.inserted - 1
      t0 == ScanLines(lb0, next.line0, l0, st.trivial, ibl, re, ws)
      t1 == ScanLines(lb1, next.line1, l1, t0, ibl, re, ws)
      st1 == [trivial |-> t1,
              show_from |-> st.show_from + next.deleted,
              show_to |-> st.show_to + next.inserted,
              l0 |-> l0, l1 |-> l1]
  IN IF k < Len(h) THEN AnalyzeFrom(h, k + 1, st1, lb0, lb1, ibl, re, ws) ELSE st1

\* A variant that takes the last lines from the first change of the chain.
analyze_hunk_first_change(h, lb0, lb1, ibl, re, ws) ==
  LET st == AnalyzeFrom(h, 1,
                        [trivial |-> initial_trivial(ibl, re),
                         show_from |-> 0, show_to |-> 0, l0 |-> 0, l1 |-> 0],
                        lb0, lb1, ibl, re, ws)
  IN [changes |-> IF st.trivial THEN ch_UNCHANGED
                  ELSE (IF st.show_from # 0 THEN ch_OLD ELSE ch_UNCHANGED)
                       \cup (IF st.show_to # 0 THEN ch_NEW ELSE ch_UNCHANGED),
      first0 |-> h[1].line0, last0 |-> h[1].line0 + h[1].deleted - 1,
      first1 |-> h[1].line1, last1 |-> h[1].line1 + h[1].inserted - 1]

analyze_hunk(h, lb0, lb1, ibl, re, ws) ==
  LET st == AnalyzeFrom(h, 1,
                        [trivial |-> initial_trivial(ibl, re),
                         show_from |-> 0, show_to |-> 0, l0 |-> 0, l1 |-> 0],
                        lb0, lb1, ibl, re, ws)
  IN [changes |-> IF st.trivial THEN ch_UNCHANGED
                  ELSE (IF st.show_from # 0 THEN ch_OLD ELSE ch_UNCHANGED)
                       \cup (IF st.show_to # 0 THEN ch_NEW ELSE ch_UNCHANGED),
      first0 |-> h[1].line0, last0 |-> st.l0,
      first1 |-> h[1].line1, last1 |-> st.l1]

\* --- the hunks and files analyze_hunk is tried on ---

\* The shapes of a hunk: for each of its changes, how many lines it deletes
\* and inserts.
RECURSIVE TotalLines(_)
TotalLines(shape) ==
  IF shape = <<>> THEN 0
  ELSE shape[1].deleted + shape[1].inserted + TotalLines(Tail(shape))

ChangeShapes ==
  { [deleted |-> d, inserted |-> n] :
      <<d, n>> \in { x \in (0..MaxHunkLines) \X (0..MaxHunkLines) :
                       x[1] + x[2] >= 1 /\ x[1] + x[2] <= MaxHunkLines } }

HunkShapes ==
  { sh \in SeqsUpTo(ChangeShapes, MaxHunkLines) :
      Len(sh) >= 1 /\ TotalLines(sh) <= MaxHunkLines }

RECURSIVE Sum(_, _, _)
Sum(shape, field, k) ==
  IF k = 0 THEN 0 ELSE shape[k][field] + Sum(shape, field, k - 1)

\* The chain for a shape: consecutive changes lie one unchanged line apart.
ChainOf(shape) ==
  [k \in 1..Len(shape) |->
     [line0 |-> Sum(shape, "deleted", k - 1) + (k - 1),
      line1 |-> Sum(shape, "inserted", k - 1) + (k - 1),
      deleted |-> shape[k].deleted,
      inserted |-> shape[k].inserted]]

\* A file's lines: per change its changed lines, taken in order from
\* 'changed', with one common line between two changes.
RECURSIVE FileOf(_, _, _, _)
FileOf(shape, field, changed, k) ==
  IF k > Len(shape) THEN <<>>
  ELSE LET from == Sum(shape, field, k - 1)
       IN Lines(changed, from + 1, from + shape[k][field])
          \o (IF k < Len(shape) THEN <<CommonLine>> ELSE <<>>)
          \o FileOf(shape, field, changed, k + 1)

\* The file with its last line left incomplete, where that leaves a line.
WithoutFinalNewline(file) ==
  IF file # <<>> /\ Len(file[Len(file)]) > 1
  THEN [file EXCEPT ![Len(file)] = SubSeq(@, 1, Len(@) - 1)]
  ELSE file

InitHunk ==
  /\ ah_pc = "call"
  /\ ignore_blank_lines \in BOOLEAN
  /\ ignore_regexp \in
       {[fastmap |-> FALSE, pattern |-> <<>>]}
       \cup {[fastmap |-> TRUE, pattern |-> pat] : pat \in Patterns}
  /\ ignore_white_space \in { DIFF_white_space[k] : k \in 1..Len(DIFF_white_space) }
  /\ \E shape \in HunkShapes :
       \E t0 \in [1..Sum(shape, "deleted", Len(shape)) -> CompleteLines],
          t1 \in [1..Sum(shape, "inserted", Len(shape)) -> CompleteLines],
          missing_newline \in BOOLEAN :
         /\ hunk = ChainOf(shape)
         /\ linbuf0 = (IF missing_newline
                       THEN WithoutFinalNewline(FileOf(shape, "deleted", t0, 1))
                       ELSE FileOf(shape, "deleted", t0, 1))
         /\ linbuf1 = (IF missing_newline
                       THEN WithoutFinalNewline(FileOf(shape, "inserted", t1, 1))
                       ELSE FileOf(shape, "inserted", t1, 1))
  /\ ah_result = [changes |-> {}, first0 |-> 0, last0 |-> 0, first1 |-> 0, last1 |-> 0]

\* A caller (a renderer's print_hunk) calls analyze_hunk on its hunk.
analyze_hunk_call ==
  /\ ah_pc = "call"
  /\ ah_result' = analyze_hunk(hunk, linbuf0, linbuf1,
                               ignore_blank_lines, ignore_regexp, ignore_white_space)
  /\ ah_pc' = "done"
  /\ UNCHANGED <<ignore_blank_lines, ignore_regexp, ignore_white_space,
                 linbuf0, linbuf1, hunk>>
  /\ UNCHANGED OthersThanHunk

NextHunk == analyze_hunk_call

InitSpecHunk == IdleFunky /\ IdleOut /\ IdleCase /\ IdleMq /\ IdleFatal /\ IdlePal /\ IdleNl /\ IdleRange /\ IdleSig /\ IdleSync /\ IdleLcs /\ IdleScript /\ InitHunk

SpecHunk == InitSpecHunk /\ [][NextHunk]_vars

\* --- what the claims say of a line, stated without the code's scan ---

\* The text of a line: its bytes without the newline.
Content(line) == SelectSeq(line, LAMBDA ch : ch # NL)

\* The deleted and the inserted lines of the hunk.
DeletedLines ==
  { linbuf0[i + 1] : i \in UNION { hunk[k].line0 .. (hunk[k].line0 + hunk[k].deleted - 1) :
                                     k \in 1..Len(hunk) } }
InsertedLines ==
  { linbuf1[i + 1] : i \in UNION { hunk[k].line1 .. (hunk[k].line1 + hunk[k].inserted - 1) :
                                     k \in 1..Len(hunk) } }

AtLeastTrailingSpace ==
  ignore_white_space \in
    { "IGNORE_TRAILING_SPACE", "IGNORE_TAB_EXPANSION_AND_TRAILING_SPACE",
      "IGNORE_SPACE_CHANGE", "IGNORE_ALL_SPACE" }

\* Blank: of zero length or, from ignore-trailing-space on, white space only.
IsBlank(line) ==
  \/ Content(line) = <<>>
  \/ AtLeastTrailingSpace /\ \A k \in 1..Len(Content(line)) : Content(line)[k] = " "

\* The pattern occurs somewhere in the text of the line.
MatchesRegexp(line) ==
  LET c == Content(line)
      pat == ignore_regexp.pattern
  IN \E s \in 0..Len(c) :
       /\ s + Len(pat) <= Len(c)
       /\ \A k \in 1..Len(pat) : c[s + k] = pat[k]

IsIgnorable(line) ==
  \/ ignore_blank_lines /\ IsBlank(line)
  \/ ignore_regexp.fastmap /\ MatchesRegexp(line)

\* The pattern occurs in the text of the line that white-space folding leaves.
MatchesRegexpAfterFolding(line) ==
  LET c == FoldWhiteSpace(Content(line))
      pat == ignore_regexp.pattern
  IN \E s \in 0..Len(c) :
       /\ s + Len(pat) <= Len(c)
       /\ \A k \in 1..Len(pat) : c[s + k] = pat[k]

HunkDeletes == \E k \in 1..Len(hunk) : hunk[k].deleted > 0
HunkInserts == \E k \in 1..Len(hunk) : hunk[k].inserted > 0

\* C2: for a hunk that deletes or inserts at least one line, analyze_hunk
\* returns UNCHANGED exactly when an ignore option (-B or -I) is active and
\* every deleted and every inserted line is ignorable; otherwise OLD when
\* the hunk only deletes, NEW when it only inserts, CHANGED when it does both.
C2_AnalyzeHunkClassifies ==
  (ah_pc = "done" /\ (HunkDeletes \/ HunkInserts)) =>
    LET allIgnorable ==
          /\ ignore_blank_lines \/ ignore_regexp.fastmap
          /\ \A line \in DeletedLines \cup InsertedLines : IsIgnorable(line)
    IN /\ (ah_result.changes = ch_UNCHANGED) <=> allIgnorable
       /\ ~allIgnorable =>
            /\ (HunkDeletes /\ ~HunkInserts) => ah_result.changes = ch_OLD
            /\ (HunkInserts /\ ~HunkDeletes) => ah_result.changes = ch_NEW
            /\ (HunkDeletes /\ HunkInserts) => ah_result.changes = ch_CHANGED

\* A hunk of two changes, all of whose lines match the -I pattern while not
\* all are blank, was classified UNCHANGED.
C2_Witness ==
  /\ ah_pc = "done"
  /\ Len(hunk) = 2
  /\ ignore_regexp.fastmap
  /\ HunkDeletes /\ HunkInserts
  /\ \E line \in DeletedLines \cup InsertedLines : ~IsBlank(line)
  /\ ah_result.changes = ch_UNCHANGED

\* C3: with -B active and no -I, analyze_hunk returns UNCHANGED if and only
\* if every deleted and inserted line is blank: of zero length or, when the
\* white-space mode is at least ignore-trailing-space, white space only.
C3_BlankHunkSuppressed ==
  (ah_pc = "done" /\ ignore_blank_lines /\ ~ignore_regexp.fastmap) =>
    ((ah_result.changes = ch_UNCHANGED)
       <=> \A line \in DeletedLines \cup InsertedLines : IsBlank(line))

\* A hunk holding a line of white space only was suppressed under -B with
\* ignore-trailing-space.
C3_Witness ==
  /\ ah_pc = "done"
  /\ ignore_blank_lines /\ ~ignore_regexp.fastmap
  /\ ignore_white_space = "IGNORE_TRAILING_SPACE"
  /\ \E line \in DeletedLines \cup InsertedLines : Content(line) = <<" ">>
  /\ ah_result.changes = ch_UNCHANGED

\* The internal numbers (from 0) of the lines the hunk deletes from file 0
\* and of the lines it inserts from file 1.
DeletedNumbers ==
  UNION { hunk[k].line0 .. (hunk[k].line0 + hunk[k].deleted - 1) : k \in 1..Len(hunk) }
InsertedNumbers ==
  UNION { hunk[k].line1 .. (hunk[k].line1 + hunk[k].inserted - 1) : k \in 1..Len(hunk) }

\* first and last are the first and the last of the numbers in nums.
FirstAndLast(nums, first, last) ==
  /\ first \in nums /\ last \in nums
  /\ \A n \in nums : first <= n /\ n <= last

RangeSpansChain(nums, firstChanges, lastChanges, first, last) ==
  /\ \A n \in nums : first <= n /\ n <= last
  /\ first <= last + 1
  /\ firstChanges => first \in nums
  /\ lastChanges => last \in nums
  /\ (Len(hunk) = 1 /\ nums = {}) => first = last + 1

----------------------------------------------------------------------------
(***************************************************************************)
(* 4.3 Hunk builder: print_script (util.c) walks the chain, asks hunkfun   *)
(* for the last change of the hunk that starts the rest of the script,     *)
(* cuts the hunk off, prints it and reconnects it.  find_change is in      *)
(* util.c; find_hunk (context.c) is not under src/ and is modelled from    *)
(* the specification.                                                      *)
(***************************************************************************)

MaxChanges == 3      \* changes in a script
MaxContext == 1      \* largest context size C

\* Unchanged lines between two consecutive changes: a change always lies at
\* least one line after the one before it.
Gaps == 1..(2 * MaxContext + 2)

\* What one change deletes and inserts.
RunShapes == { <<1, 0>>, <<0, 1>>, <<1, 1>> }

\* The chain of n changes with the given shapes and gaps, linked in order.
RECURSIVE Line0Of(_, _, _)
Line0Of(shapes, gaps, k) ==
  IF k = 1 THEN 0 ELSE Line0Of(shapes, gaps, k - 1) + shapes[k - 1][1] + gaps[k - 1]
RECURSIVE Line1Of(_, _, _)
Line1Of(shapes, gaps, k) ==
  IF k = 1 THEN 0 ELSE Line1Of(shapes, gaps, k - 1) + shapes[k - 1][2] + gaps[k - 1]

MakeChain(shapes, gaps) ==
  [k \in 1..Len(shapes) |->
     [line0 |-> Line0Of(shapes, gaps, k), line1 |-> Line1Of(shapes, gaps, k),
      deleted |-> shapes[k][1], inserted |-> shapes[k][2],
      link |-> IF k < Len(shapes) THEN k + 1 ELSE 0]]

\* A mutation of find_change: the hunk takes the next change too.
find_change_pair(ch, sc) == IF ch[sc].link # 0 THEN ch[sc].link ELSE sc

\* find_change: the hunk is the first change alone.
find_change(ch, sc) == sc

\* find_hunk: keep going while the next change lies at most 2C unchanged
\* lines after the end of this one; return the last change of the hunk.
RECURSIVE find_hunk(_, _, _)
find_hunk(ch, sc, c) ==
  LET next == ch[sc].link
      top0 == ch[sc].line0 + ch[sc].deleted
  IN IF next = 0 \/ ch[next].line0 - top0 > 2 * c THEN sc
     ELSE find_hunk(ch, next, c)

CallHunkfun(ch, sc) ==
  IF hunkfun = "find_hunk" THEN find_hunk(ch, sc, context) ELSE find_change(ch, sc)

\* The changes reachable from sc by following the links.
RECURSIVE Reachable(_, _)
Reachable(ch, sc) == IF sc = 0 THEN <<>> ELSE <<sc>> \o Reachable(ch, ch[sc].link)

\* What (*hunkfun) (next) may return: the result of find_hunk or of
\* find_change, or, for a hunk function of which no more is known, any
\* change reachable from next.
HunkEnds(ch, sc) ==
  IF hunkfun = "any" THEN { Reachable(ch, sc)[k] : k \in 1..Len(Reachable(ch, sc)) }
  ELSE {CallHunkfun(ch, sc)}

InitScript ==
  /\ ps_pc = "loop"
  /\ \E n \in 1..MaxChanges :
       \E shapes \in [1..n -> RunShapes], gaps \in [1..(n - 1) -> Gaps] :
         chain = MakeChain(shapes, gaps)
  /\ ps_next = 1
  /\ ps_this = 0
  /\ ps_end = 0
  /\ hunkfun \in {"find_change", "find_hunk", "any"}
  /\ context \in 0..MaxContext
  /\ printed = <<>>

\* A mutation of the cut: the hunk is not disconnected from the rest.
CutHunk_keep_link(ch, end) == ch

\* "end->link = nullptr".
CutHunk(ch, end) == [ch EXCEPT ![end].link = 0]

\* print_script, top of the loop: find the hunk and disconnect it.
print_script_find ==
  /\ ps_pc = "loop"
  /\ ps_next # 0
  /\ \E end \in HunkEnds(chain, ps_next) :
        /\ ps_this' = ps_next
        /\ ps_end' = end
        /\ ps_next' = chain[end].link
        /\ chain' = CutHunk(chain, end)
  /\ ps_pc' = "print"
  /\ UNCHANGED <<hunkfun, context, printed>>
  /\ UNCHANGED OthersThanScript

\* print_script: (*printfun) (this).
print_script_print ==
  /\ ps_pc = "print"
  /\ printed' = Append(printed, Reachable(chain, ps_this))
  /\ ps_pc' = "reconnect"
  /\ UNCHANGED <<chain, ps_next, ps_this, ps_end, hunkfun, context>>
  /\ UNCHANGED OthersThanScript

\* A mutation: the hunk is left cut off from the rest.
print_script_no_reconnect ==
  /\ ps_pc = "reconnect"
  /\ ps_pc' = "loop"
  /\ UNCHANGED <<chain, ps_next, ps_this, ps_end, hunkfun, context, printed>>
  /\ UNCHANGED OthersThanScript

\* print_script: "end->link = next".
print_script_reconnect ==
  /\ ps_pc = "reconnect"
  /\ chain' = [chain EXCEPT ![ps_end].link = ps_next]
  /\ ps_pc' = "loop"
  /\ UNCHANGED <<ps_next, ps_this, ps_end, hunkfun, context, printed>>
  /\ UNCHANGED OthersThanScript

\* print_script: the loop ends when next is null.
print_script_return ==
  /\ ps_pc = "loop"
  /\ ps_next = 0
  /\ ps_pc' = "done"
  /\ UNCHANGED <<chain, ps_next, ps_this, ps_end, hunkfun, context, printed>>
  /\ UNCHANGED OthersThanScript

NextScript ==
  \/ print_script_find
  \/ print_script_print
  \/ print_script_reconnect
  \/ print_script_return

InitSpecScript == IdleFunky /\ IdleOut /\ IdleCase /\ IdleMq /\ IdleFatal /\ IdlePal /\ IdleNl /\ IdleRange /\ IdleSig /\ IdleSync /\ IdleLcs /\ IdleHunk /\ InitScript

SpecScript == InitSpecScript /\ [][NextScript]_vars

\* Unchanged lines between change k and the next one of the script.
GapAfter(k) == chain[k + 1].line0 - (chain[k].line0 + chain[k].deleted)

\* Changes i and j were printed in one hunk.
InOneHunk(i, j) ==
  \E h \in 1..Len(printed) :
    /\ \E x \in 1..Len(printed[h]) : printed[h][x] = i
    /\ \E y \in 1..Len(printed[h]) : printed[h][y] = j

\* Change i was printed at all.
WasPrinted(i) == InOneHunk(i, i)

\* C4: for context size C, two consecutive changes separated by exactly 2C
\* unchanged lines are put in one hunk, and two changes separated by 2C+1
\* unchanged lines are put in two distinct hunks.
C4_HunkMergeThreshold ==
  (ps_pc = "done" /\ hunkfun = "find_hunk") =>
    \A k \in 1..(Len(chain) - 1) :
      /\ WasPrinted(k) /\ WasPrinted(k + 1)
      /\ GapAfter(k) = 2 * context => InOneHunk(k, k + 1)
      /\ GapAfter(k) = 2 * context + 1 => ~InOneHunk(k, k + 1)

\* With C = 1 a script whose changes lie 2 and then 3 lines apart was
\* printed as a hunk of two changes and a hunk of one.
C4_Witness ==
  /\ ps_pc = "done" /\ hunkfun = "find_hunk" /\ context = 1
  /\ Len(chain) = 3
  /\ GapAfter(1) = 2 /\ GapAfter(2) = 3
  /\ printed = << <<1, 2>>, <<3>> >>

\* The changes printed so far, hunk after hunk.
RECURSIVE Flatten(_)
Flatten(hs) == IF hs = <<>> THEN <<>> ELSE Head(hs) \o Flatten(Tail(hs))

\* C24: whatever change reachable from its argument the hunk function
\* returns, print_script calls the print function once per hunk, in chain
\* order: the hunks are not empty, follow one another without gap or
\* overlap and, when print_script returns, hold every change of the script
\* exactly once; while the print function runs, the link of the last change
\* of the hunk is null and the hunk is all that can be reached from this.
C24_HunksPartitionTheScript ==
  ps_pc # "off" =>
    /\ \A h \in 1..Len(printed) : printed[h] # <<>>
    /\ Flatten(printed) = [k \in 1..Len(Flatten(printed)) |-> k]
    /\ ps_pc = "done" => Len(Flatten(printed)) = Len(chain)
    /\ ps_pc = "print" =>
         /\ chain[ps_end].link = 0
         /\ ps_this = Len(Flatten(printed)) + 1
         /\ Reachable(chain, ps_this) =
              [k \in 1..(ps_end - ps_this + 1) |-> ps_this + k - 1]

\* A hunk function about which nothing more is known cut a script of
\* three changes, which lie one line apart, into a hunk of one and a hunk of two.
C24_Witness ==
  /\ ps_pc = "done" /\ hunkfun = "any" /\ context = 0
  /\ Len(chain) = 3
  /\ GapAfter(1) = 1 /\ GapAfter(2) = 1
  /\ printed = << <<1>>, <<2, 3>> >>

\* C25: when print_script returns, every link is what it was before the
\* call (every change points at the next one and the last at null), so the
\* whole chain is reachable from its head; and no step of print_script
\* changes line0, line1, deleted or inserted of any change.
C25_ChainRestored ==
  /\ [](ps_pc = "done" =>
          /\ \A k \in 1..Len(chain) :
               chain[k].link = IF k < Len(chain) THEN k + 1 ELSE 0
          /\ Reachable(chain, 1) = [k \in 1..Len(chain) |-> k])
  /\ [][ /\ Len(chain') = Len(chain)
         /\ \A k \in 1..Len(chain) :
              /\ chain'[k].line0 = chain[k].line0
              /\ chain'[k].line1 = chain[k].line1
              /\ chain'[k].deleted = chain[k].deleted
              /\ chain'[k].inserted = chain[k].inserted ]_vars

\* print_script has returned after cutting a script of three changes into
\* three hunks, and the chain is whole again.
C25_Witness ==
  /\ ps_pc = "done" /\ hunkfun = "find_hunk" /\ context = 0
  /\ Len(printed) = 3
  /\ Reachable(chain, 1) = <<1, 2, 3>>

\* C26: with find_change print_script prints one hunk per change of the
\* chain, and each change is a maximal run of changed lines: at least one
\* unchanged line lies between a change and the next.
C26_OneHunkPerChange ==
  (ps_pc = "done" /\ hunkfun = "find_change") =>
     /\ printed = [k \in 1..Len(chain) |-> <<k>>]
     /\ \A k \in 1..(Len(chain) - 1) : GapAfter(k) >= 1

\* With find_change three changes that lie one unchanged line apart were
\* printed as three hunks, although the context would join them.
C26_Witness ==
  /\ ps_pc = "done" /\ hunkfun = "find_change" /\ context = 1
  /\ Len(chain) = 3
  /\ GapAfter(1) = 1 /\ GapAfter(2) = 1
  /\ printed = << <<1>>, <<2>>, <<3>> >>

----------------------------------------------------------------------------
(***************************************************************************)
(* util.c: signal handling, colors, the message queue and output_1_line.   *)
(* The main program is a sequence of steps at pc; the kernel delivers      *)
(* signals between any two of them.  This is the build in which            *)
(* SA_NOCLDSTOP is nonzero: handlers are installed with sigaction and run  *)
(* with the caught signals blocked, so a handler is one atomic step.       *)
(***************************************************************************)

MaxDeliveries == 3      \* signals sent to the process in one behaviour
MaxMessages == 2        \* calls of message in one behaviour
MaxTabSize == 3         \* --tabsize ranges over 1..MaxTabSize
\* enum { MAX_CHUNK = 1024 } of output_1_line, scaled down.
MAX_CHUNK == 3

\* The signals of sig[] that the model sends, in the order of the table.
sig_table == <<"SIGTSTP", "SIGINT", "SIGTERM">>
nsigs == Len(sig_table)
Signals == { sig_table[j] : j \in 1..nsigs }
SIGSTOP == "SIGSTOP"

\* True if sig[j] == SIGTSTP.
is_tstp_index(j) == j = 1

\* enum color_context.
Contexts == {"HEADER_CONTEXT", "ADD_CONTEXT", "DELETE_CONTEXT", RESET_CONTEXT,
             "LINE_NUMBER_CONTEXT"}

\* The contexts the callers of this model ask for: the reset and two colors.
CallerContexts == {RESET_CONTEXT, "ADD_CONTEXT", "DELETE_CONTEXT"}

\* The indicator set_color_context writes between C_LEFT and C_RIGHT.
IndicatorOf(c) ==
  CASE c = "HEADER_CONTEXT" -> "C_HEADER"
    [] c = "LINE_NUMBER_CONTEXT" -> "C_LINE"
    [] c = "ADD_CONTEXT" -> "C_ADD"
    [] c = "DELETE_CONTEXT" -> "C_DELETE"
    [] c = RESET_CONTEXT -> "C_RESET"

\* The main program takes a step only while the process runs, and a signal
\* that is pending and not blocked is delivered before the program goes on.
Runs == proc = "running" /\ sigpending \ sigmask = {}

\* Call and return: the caller's resumption point and its color_context
\* parameter are saved in frames, and with them the color the output was in
\* when the call was made.
CallTo(target, arg, resume) ==
  /\ pc' = target
  /\ color_context' = arg
  /\ frames' = Append(frames, [pc |-> resume, color_context |-> color_context,
                               last_context |-> last_context])

Return ==
  /\ pc' = frames[Len(frames)].pc
  /\ color_context' = frames[Len(frames)].color_context
  /\ frames' = SubSeq(frames, 1, Len(frames) - 1)

(* The asynchronous handlers *)

\* A variant of sighandler that stores without testing interrupt_signal.
sighandler_overwrite(s) ==
  /\ interrupt_signal' = s
  /\ recorded' = Append(recorded, s)
  /\ UNCHANGED stop_signal_count

\* sighandler: if (! interrupt_signal) interrupt_signal = sig;
sighandler(s) ==
  /\ interrupt_signal' = IF interrupt_signal = NoSignal THEN s
                         ELSE interrupt_signal
  /\ recorded' = IF interrupt_signal = NoSignal THEN Append(recorded, s)
                 ELSE recorded
  /\ UNCHANGED stop_signal_count

\* stophandler: if (! interrupt_signal) stop_signal_count++;
stophandler(s) ==
  /\ stop_signal_count' = IF interrupt_signal = NoSignal
                          THEN stop_signal_count + 1 ELSE stop_signal_count
  /\ UNCHANGED <<interrupt_signal, recorded>>

\* What the kernel does when it delivers signal s: nothing if s is ignored,
\* the default action, or a run of the installed handler.
Dispose(s) ==
  CASE handler[s] = "SIG_IGN" ->
         UNCHANGED <<flagVars, proc, recorded, handled>>
    [] handler[s] = "SIG_DFL" ->
         /\ proc' = IF s = "SIGTSTP" THEN "stopped" ELSE "killed"
         /\ UNCHANGED <<flagVars, recorded, handled>>
    [] handler[s] = "sighandler" ->
         sighandler(s) /\ handled' = handled + 1 /\ UNCHANGED proc
    [] handler[s] = "stophandler" ->
         stophandler(s) /\ handled' = handled + 1 /\ UNCHANGED proc

\* A signal is sent to the process (from the terminal or by kill).
Deliver(s) ==
  /\ proc = "running"
  /\ deliveries < MaxDeliveries
  /\ deliveries' = deliveries + 1
  /\ IF s \in sigmask
     THEN /\ sigpending' = sigpending \cup {s}
          /\ UNCHANGED <<flagVars, proc, recorded, handled>>
     ELSE /\ Dispose(s)
          /\ UNCHANGED sigpending
  /\ UNCHANGED <<ctlVars, handler, sigmask, catchVars, localVars, colorVars,
                 msgVars, lineVars, steps, raised>>
  /\ UNCHANGED OthersThanSig

\* A pending signal is delivered once it is no longer blocked.
DeliverPending(s) ==
  /\ proc = "running"
  /\ s \in sigpending \ sigmask
  /\ sigpending' = sigpending \ {s}
  /\ Dispose(s)
  /\ UNCHANGED <<ctlVars, handler, sigmask, catchVars, localVars, colorVars,
                 msgVars, lineVars, steps, raised, deliveries>>
  /\ UNCHANGED OthersThanSig

\* SIGCONT resumes a stopped process.
Continue ==
  /\ proc = "stopped"
  /\ proc' = "running"
  /\ UNCHANGED <<ctlVars, flagVars, handler, sigmask, sigpending, catchVars,
                 localVars, colorVars, msgVars, lineVars, histVars>>
  /\ UNCHANGED OthersThanSig

(* check_color_output and install_signal_handlers *)

IndexOf(s) == CHOOSE j \in 1..nsigs : sig_table[j] = s

\* install_signal_handlers, first loop: the signals not ignored are caught.
CaughtOf(h) == { s \in Signals : h[s] # "SIG_IGN" }

\* install_signal_handlers, second loop.
InstalledOver(h) ==
  [s \in Signals |->
     IF s \in CaughtOf(h)
     THEN IF is_tstp_index(IndexOf(s)) THEN "stophandler" ELSE "sighandler"
     ELSE h[s]]

ColorsStyles == {"NEVER", "AUTO", "ALWAYS"}

\* check_color_output, called by begin_output.  palette_ok is whether
\* parse_diff_color accepted the palette.
check_color_output(colors_style, output_is_tty, palette_ok) ==
  /\ Runs /\ pc = "begin_output"
  /\ pc' = "caller"
  /\ IF colors_style = "NEVER"
     THEN UNCHANGED <<colors_enabled, handler, catchVars>>
     ELSE /\ colors_enabled' =
               /\ colors_style = "ALWAYS"
                    \/ (colors_style = "AUTO" /\ output_is_tty)
               /\ palette_ok
          /\ IF output_is_tty
             THEN /\ caught_signals' = CaughtOf(handler)
                  /\ handler' = InstalledOver(handler)
                  /\ some_signals_caught' =
                       (some_signals_caught \/ CaughtOf(handler) # {})
             ELSE UNCHANGED <<handler, catchVars>>
  /\ UNCHANGED <<frames, color_context, flagVars, sigmask, sigpending, proc,
                 localVars, last_context, out_seq, out_color, msgVars,
                 lineVars, histVars>>
  /\ UNCHANGED OthersThanSig

(* process_signals *)

NoPoll == [bytes |-> 0, chars |-> 0]

\* while (interrupt_signal | stop_signal_count)
process_signals_while ==
  /\ Runs /\ pc = "process_signals"
  /\ since_poll' = NoPoll
  /\ IF interrupt_signal # NoSignal \/ stop_signal_count # 0
     THEN /\ pc' = "ps_reset"
          /\ steps' = <<>>
          /\ UNCHANGED <<frames, color_context>>
     ELSE /\ Return
          /\ UNCHANGED steps
  /\ UNCHANGED <<flagVars, kernelVars, catchVars, localVars, colorVars,
                 msgVars, expand_tabs, tabsize, left, t_char, t_rest,
                 flag_format, counter_proc_signals, column, tab, written,
                 to_write, recorded, raised, deliveries, handled>>
  /\ UNCHANGED OthersThanSig

\* A variant of process_signals that does not reset the color first.
process_signals_keep_color ==
  /\ Runs /\ pc = "ps_reset"
  /\ pc' = "ps_fflush"
  /\ steps' = Append(steps, "set_color_context")
  /\ UNCHANGED <<frames, color_context, flagVars, kernelVars, catchVars,
                 localVars, colorVars, msgVars, lineVars, recorded, raised,
                 deliveries, handled>>
  /\ UNCHANGED OthersThanSig

\* set_color_context (RESET_CONTEXT);
process_signals_reset ==
  /\ Runs /\ pc = "ps_reset"
  /\ CallTo("set_color_context", RESET_CONTEXT, "ps_fflush")
  /\ steps' = Append(steps, "set_color_context")
  /\ UNCHANGED <<flagVars, kernelVars, catchVars, localVars, colorVars,
                 msgVars, lineVars, recorded, raised, deliveries, handled>>
  /\ UNCHANGED OthersThanSig

\* A variant of the flush that also writes the saved messages to stdout.
process_signals_fflush_messages ==
  /\ Runs /\ pc = "ps_fflush"
  /\ pc' = "ps_block"
  /\ steps' = Append(steps, "fflush")
  /\ msgs_printed' = msgs_printed \o [k \in 1..Len(msg_chain) |-> msg_chain[k].msgid]
  /\ UNCHANGED <<frames, color_context, flagVars, kernelVars, catchVars,
                 localVars, colorVars, paginate, msg_chain, lineVars,
                 recorded, raised, deliveries, handled>>
  /\ UNCHANGED OthersThanSig

\* fflush (stdout);
process_signals_fflush ==
  /\ Runs /\ pc = "ps_fflush"
  /\ pc' = "ps_block"
  /\ steps' = Append(steps, "fflush")
  /\ UNCHANGED <<frames, color_context, flagVars, kernelVars, catchVars,
                 localVars, colorVars, msgVars, lineVars, recorded, raised,
                 deliveries, handled>>
  /\ UNCHANGED OthersThanSig

\* xsigprocmask (SIG_BLOCK, &caught_signals, &oldset);
process_signals_block ==
  /\ Runs /\ pc = "ps_block"
  /\ pc' = "ps_load"
  /\ oldset' = sigmask
  /\ sigmask' = sigmask \cup caught_signals
  /\ steps' = Append(steps, "SIG_BLOCK")
  /\ UNCHANGED <<frames, color_context, flagVars, handler, sigpending, proc,
                 catchVars, stops, sig, colorVars, msgVars, lineVars,
                 recorded, raised, deliveries, handled>>
  /\ UNCHANGED OthersThanSig

\* A variant of the choice of the signal that always re-raises SIGTERM.
SignalFor_sigterm(st) == IF st # 0 THEN SIGSTOP ELSE "SIGTERM"

\* if (stops) sig = SIGSTOP; else sig = interrupt_signal;
SignalFor(st) == IF st # 0 THEN SIGSTOP ELSE interrupt_signal

\* int stops = stop_signal_count, sig; then the test of stops and, for a
\* stop, stop_signal_count = stops - 1; sig = SIGSTOP; otherwise
\* sig = interrupt_signal.
process_signals_load ==
  /\ Runs /\ pc = "ps_load"
  /\ stops' = stop_signal_count
  /\ sig' = SignalFor(stop_signal_count)
  /\ IF stop_signal_count # 0
     THEN /\ stop_signal_count' = stop_signal_count - 1
          /\ pc' = "ps_raise"
     ELSE /\ pc' = "ps_default"
          /\ UNCHANGED stop_signal_count
  /\ UNCHANGED <<frames, color_context, interrupt_signal, kernelVars,
                 catchVars, oldset, colorVars, msgVars, lineVars, histVars>>
  /\ UNCHANGED OthersThanSig

\* xsignal (sig, SIG_DFL);
process_signals_default ==
  /\ Runs /\ pc = "ps_default"
  /\ pc' = "ps_raise"
  /\ handler' = [handler EXCEPT ![sig] = "SIG_DFL"]
  /\ steps' = Append(steps, "SIG_DFL")
  /\ UNCHANGED <<frames, color_context, flagVars, sigmask, sigpending, proc,
                 catchVars, localVars, colorVars, msgVars, lineVars,
                 recorded, raised, deliveries, handled>>
  /\ UNCHANGED OthersThanSig

\* raise (sig): SIGSTOP cannot be blocked and stops the process at once; a
\* blocked signal stays pending; a signal that is not blocked takes its
\* action, the default one, at once.
process_signals_raise ==
  /\ Runs /\ pc = "ps_raise"
  /\ pc' = "ps_setmask"
  /\ raised' = sig
  /\ steps' = Append(steps, "raise")
  /\ IF sig = SIGSTOP
     THEN proc' = "stopped" /\ UNCHANGED sigpending
     ELSE IF sig \in sigmask
          THEN sigpending' = sigpending \cup {sig} /\ UNCHANGED proc
          ELSE proc' = "killed" /\ UNCHANGED sigpending
  /\ UNCHANGED <<frames, color_context, flagVars, handler, sigmask,
                 catchVars, localVars, colorVars, msgVars, lineVars,
                 recorded, deliveries, handled>>
  /\ UNCHANGED OthersThanSig

\* xsigprocmask (SIG_SETMASK, &oldset, nullptr); and back to the test.
process_signals_setmask ==
  /\ Runs /\ pc = "ps_setmask"
  /\ pc' = "process_signals"
  /\ sigmask' = oldset
  /\ steps' = Append(steps, "SIG_SETMASK")
  /\ UNCHANGED <<frames, color_context, flagVars, handler, sigpending, proc,
                 catchVars, localVars, colorVars, msgVars, lineVars,
                 recorded, raised, deliveries, handled>>
  /\ UNCHANGED OthersThanSig

(* set_color_context *)

\* if (color_context != RESET_CONTEXT) process_signals ();
set_color_context_poll ==
  /\ Runs /\ pc = "set_color_context"
  /\ IF color_context # RESET_CONTEXT
     THEN CallTo("process_signals", color_context, "scc_test")
     ELSE pc' = "scc_test" /\ UNCHANGED <<frames, color_context>>
  /\ UNCHANGED <<flagVars, kernelVars, catchVars, localVars, colorVars,
                 msgVars, lineVars, histVars>>
  /\ UNCHANGED OthersThanSig

\* A variant that does not compare the context with last_context.
set_color_context_left_always ==
  /\ Runs /\ pc = "scc_test"
  /\ IF colors_enabled
     THEN /\ out_seq' = <<"C_LEFT">>
          /\ pc' = "scc_code"
          /\ UNCHANGED <<frames, color_context>>
     ELSE /\ Return
          /\ UNCHANGED out_seq
  /\ UNCHANGED <<flagVars, kernelVars, catchVars, localVars, colors_enabled,
                 last_context, out_color, msgVars, lineVars, histVars>>
  /\ UNCHANGED OthersThanSig

\* if (colors_enabled && last_context != color_context)
\*   put_indicator (&color_indicator[C_LEFT]);
set_color_context_left ==
  /\ Runs /\ pc = "scc_test"
  /\ IF colors_enabled /\ last_context # color_context
     THEN /\ out_seq' = <<"C_LEFT">>
          /\ pc' = "scc_code"
          /\ UNCHANGED <<frames, color_context>>
     ELSE /\ Return
          /\ UNCHANGED out_seq
  /\ UNCHANGED <<flagVars, kernelVars, catchVars, localVars, colors_enabled,
                 last_context, out_color, msgVars, lineVars, histVars>>
  /\ UNCHANGED OthersThanSig

\* switch (color_context): put_indicator of the context's code.
set_color_context_code ==
  /\ Runs /\ pc = "scc_code"
  /\ out_seq' = Append(out_seq, IndicatorOf(color_context))
  /\ pc' = "scc_right"
  /\ UNCHANGED <<frames, color_context, flagVars, kernelVars, catchVars,
                 localVars, colors_enabled, last_context, out_color, msgVars,
                 lineVars, histVars>>
  /\ UNCHANGED OthersThanSig

\* put_indicator (&color_indicator[C_RIGHT]); last_context = color_context;
set_color_context_right ==
  /\ Runs /\ pc = "scc_right"
  /\ out_seq' = <<>>
  /\ out_color' = color_context
  /\ last_context' = color_context
  /\ Return
  /\ UNCHANGED <<flagVars, kernelVars, catchVars, localVars, colors_enabled,
                 msgVars, lineVars, histVars>>
  /\ UNCHANGED OthersThanSig

(* output_1_line *)

\* What a line holds: the characters the switch of output_1_line tells
\* apart, an ordinary one-byte character and a wide multi-byte one.
Chars == {"TAB", "CR", "BS", "NL", "x", "wide"}

\* g.len of mcel_scan: the bytes of the character.
mcel_len(c) == IF c = "wide" THEN 3 ELSE 1

\* g.err ? 1 : c32isprint (g.ch) ? c32width (g.ch) : 0
WidthOf(c) == CASE c = "x" -> 1 [] c = "wide" -> 2 [] OTHER -> 0

\* The bytes fprintf (out, flag_format, line_flag) writes, as for "%s " and "<".
FlagBytes == Len(<<"<", " ">>)

\* Lines are long enough for output_1_line to poll twice.
MaxLine == 2 * MAX_CHUNK + 1

\* A variant of the chunk size that writes all that is left at once.
ChunkOf_whole(n) == n

\* to_write = MIN (left, MAX_CHUNK)
ChunkOf(n) == Min(n, MAX_CHUNK)

\* A caller hands output_1_line a line of n bytes (plain mode) or of n
\* characters of which c is the first (with -t).
call_output_1_line(n, c, ff) ==
  /\ Runs /\ pc = "caller"
  /\ frames' = Append(frames, [pc |-> "caller", color_context |-> color_context,
                               last_context |-> last_context])
  /\ since_poll' = NoPoll
  /\ IF ~expand_tabs
     THEN /\ pc' = "o1l_plain"
          /\ left' = n
          /\ UNCHANGED <<t_char, t_rest, flag_format, counter_proc_signals,
                         column, tab>>
     ELSE /\ pc' = "o1l_tab"
          /\ t_rest' = n
          /\ t_char' = IF n = 0 THEN "limit" ELSE c
          /\ flag_format' = ff
          /\ tab' = 0 /\ column' = 0 /\ counter_proc_signals' = 0
          /\ UNCHANGED left
  /\ UNCHANGED <<color_context, flagVars, kernelVars, catchVars, localVars,
                 colorVars, msgVars, expand_tabs, tabsize, written, to_write,
                 histVars>>
  /\ UNCHANGED OthersThanSig

\* Plain mode: while (left) { to_write = MIN (left, MAX_CHUNK);
\* written = fwrite (...); process_signals ();
output_1_line_fwrite ==
  /\ Runs /\ pc = "o1l_plain"
  /\ IF left = 0
     THEN /\ Return
          /\ UNCHANGED <<written, to_write, since_poll>>
     ELSE \E w \in {ChunkOf(left), 0} :
            /\ to_write' = ChunkOf(left)
            /\ written' = w
            /\ since_poll' = [since_poll EXCEPT !.bytes = @ + w]
            /\ CallTo("process_signals", color_context, "o1l_written")
  /\ UNCHANGED <<flagVars, kernelVars, catchVars, localVars, colorVars,
                 msgVars, expand_tabs, tabsize, left, t_char, t_rest,
                 flag_format, counter_proc_signals, column, tab, histVars>>
  /\ UNCHANGED OthersThanSig

\* if (written < to_write) return; base += written; left -= written; }
output_1_line_written ==
  /\ Runs /\ pc = "o1l_written"
  /\ IF written < to_write
     THEN Return /\ UNCHANGED left
     ELSE /\ left' = left - written
          /\ pc' = "o1l_plain"
          /\ UNCHANGED <<frames, color_context>>
  /\ UNCHANGED <<flagVars, kernelVars, catchVars, localVars, colorVars,
                 msgVars, expand_tabs, tabsize, t_char, t_rest, flag_format,
                 counter_proc_signals, column, tab, written, to_write,
                 since_poll, histVars>>
  /\ UNCHANGED OthersThanSig

\* With -t: while (t < limit) { counter_proc_signals++;
\* if (counter_proc_signals == MAX_CHUNK)
\*   { process_signals (); counter_proc_signals = 0; }
\* The counter is local and nothing reads it during the call, so it is
\* cleared in the step that makes the call.
output_1_line_count ==
  /\ Runs /\ pc = "o1l_tab"
  /\ IF t_char = "limit"
     THEN Return /\ UNCHANGED counter_proc_signals
     ELSE IF counter_proc_signals + 1 = MAX_CHUNK
          THEN /\ counter_proc_signals' = 0
               /\ CallTo("process_signals", color_context, "o1l_switch")
          ELSE /\ counter_proc_signals' = counter_proc_signals + 1
               /\ pc' = "o1l_switch"
               /\ UNCHANGED <<frames, color_context>>
  /\ UNCHANGED <<flagVars, kernelVars, catchVars, localVars, colorVars,
                 msgVars, expand_tabs, tabsize, left, t_char, t_rest,
                 flag_format, column, tab, written, to_write, since_poll,
                 histVars>>
  /\ UNCHANGED OthersThanSig

\* A variant of the switch that writes tabsize spaces for every tab.
SwitchOn_whole_tab(c, nxt) ==
  CASE c = "TAB" ->
         [bytes |-> tabsize, column |-> 0, tab |-> tab + 1]
    [] c = "CR" ->
         [bytes |-> 1 + (IF flag_format /\ nxt # "limit" /\ nxt # "NL"
                         THEN FlagBytes ELSE 0),
          column |-> 0, tab |-> 0]
    [] c = "BS" ->
         IF 0 < column
         THEN [bytes |-> 1, column |-> column - 1, tab |-> tab]
         ELSE IF 0 < tab
              THEN [bytes |-> 1, column |-> tabsize - 1, tab |-> tab - 1]
              ELSE [bytes |-> 0, column |-> column, tab |-> tab]
    [] OTHER ->
         [bytes |-> mcel_len(c),
          column |-> (column + WidthOf(c)) % tabsize,
          tab |-> tab + ((column + WidthOf(c)) \div tabsize)]

\* The bytes one pass of the switch writes for character c when nxt follows
\* it, and the column and tab it leaves.
SwitchOn(c, nxt) ==
  CASE c = "TAB" ->
         [bytes |-> tabsize - column, column |-> 0, tab |-> tab + 1]
    [] c = "CR" ->
         [bytes |-> 1 + (IF flag_format /\ nxt # "limit" /\ nxt # "NL"
                         THEN FlagBytes ELSE 0),
          column |-> 0, tab |-> 0]
    [] c = "BS" ->
         IF 0 < column
         THEN [bytes |-> 1, column |-> column - 1, tab |-> tab]
         ELSE IF 0 < tab
              THEN [bytes |-> 1, column |-> tabsize - 1, tab |-> tab - 1]
              ELSE [bytes |-> 0, column |-> column, tab |-> tab]
    [] OTHER ->
         [bytes |-> mcel_len(c),
          column |-> (column + WidthOf(c)) % tabsize,
          tab |-> tab + ((column + WidthOf(c)) \div tabsize)]

\* switch (*t): one character is consumed and its expansion written; a
\* write that fails returns.
output_1_line_switch ==
  /\ Runs /\ pc = "o1l_switch"
  /\ \E nxt \in Chars, ok \in BOOLEAN :
       LET after == IF t_rest = 1 THEN "limit" ELSE nxt
           r == SwitchOn(t_char, after)
       IN /\ t_char' = after
          /\ t_rest' = t_rest - 1
          /\ since_poll' = [bytes |-> since_poll.bytes + r.bytes,
                            chars |-> since_poll.chars + 1]
          /\ column' = r.column
          /\ tab' = r.tab
          /\ IF ok \/ r.bytes = 0
             THEN pc' = "o1l_tab" /\ UNCHANGED <<frames, color_context>>
             ELSE Return
  /\ UNCHANGED <<flagVars, kernelVars, catchVars, localVars, colorVars,
                 msgVars, expand_tabs, tabsize, left, flag_format,
                 counter_proc_signals, written, to_write, histVars>>
  /\ UNCHANGED OthersThanSig

(* message and print_message_queue *)

\* message: under -l the message is saved at the end of msg_chain,
\* otherwise it is printed at once.
message ==
  /\ Runs /\ pc = "caller"
  /\ Len(msg_chain) + Len(msgs_printed) < MaxMessages
  /\ \A k \in 1..Len(msg_chain) : ~msg_chain[k].freed
  /\ LET new == Len(msg_chain) + Len(msgs_printed) + 1
     IN IF paginate
        THEN /\ msg_chain' = Append(msg_chain, [msgid |-> new, freed |-> FALSE])
             /\ UNCHANGED msgs_printed
        ELSE /\ msgs_printed' = Append(msgs_printed, new)
             /\ UNCHANGED msg_chain
  /\ UNCHANGED <<ctlVars, flagVars, kernelVars, catchVars, localVars,
                 colorVars, paginate, lineVars, histVars>>
  /\ UNCHANGED OthersThanSig

\* The messages print_message_queue writes, and the chain it leaves: every
\* struct msg is freed and msg_chain itself is not reset.
QueueOutput(chain_) == [k \in 1..Len(chain_) |-> chain_[k].msgid]
QueueFreed(chain_) == [k \in 1..Len(chain_) |-> [chain_[k] EXCEPT !.freed = TRUE]]

\* print_message_queue, as the main program calls it before it exits.
print_message_queue ==
  /\ Runs /\ pc = "caller"
  /\ msg_chain # <<>>
  /\ \A k \in 1..Len(msg_chain) : ~msg_chain[k].freed
  /\ msgs_printed' = msgs_printed \o QueueOutput(msg_chain)
  /\ msg_chain' = QueueFreed(msg_chain)
  /\ UNCHANGED <<ctlVars, flagVars, kernelVars, catchVars, localVars,
                 colorVars, paginate, lineVars, histVars>>
  /\ UNCHANGED OthersThanSig

(* cleanup_signal_handlers and the callers *)

\* The signals of sig[] that cleanup_signal_handlers has still to reset:
\* xsignal (sig[j], SIG_DFL) changes nothing for one that has its default
\* action already.
ToReset == { j \in 1..nsigs : sig_table[j] \in caught_signals
                              /\ handler[sig_table[j]] # "SIG_DFL" }

\* A variant that resets the handlers and does not process the signals.
cleanup_signal_handlers_reset_only ==
  /\ Runs /\ pc = "cleanup_loop"
  /\ IF ToReset # {}
     THEN /\ handler' = [handler EXCEPT
                           ![sig_table[CHOOSE j \in ToReset :
                                         \A i \in ToReset : j <= i]] = "SIG_DFL"]
          /\ UNCHANGED <<pc, frames, color_context>>
     ELSE /\ pc' = "exit"
          /\ UNCHANGED <<frames, color_context, handler>>
  /\ UNCHANGED <<flagVars, sigmask, sigpending, proc, catchVars, localVars,
                 colorVars, msgVars, lineVars, histVars>>
  /\ UNCHANGED OthersThanSig

\* cleanup_signal_handlers: if (some_signals_caught), else nothing.
cleanup_signal_handlers ==
  /\ Runs /\ pc = "caller"
  /\ pc' = IF some_signals_caught THEN "cleanup_loop" ELSE "exit"
  /\ UNCHANGED <<frames, color_context, flagVars, kernelVars, catchVars,
                 localVars, colorVars, msgVars, lineVars, histVars>>
  /\ UNCHANGED OthersThanSig

\* The loop of cleanup_signal_handlers: one caught signal after the other
\* gets its default action, in the order of sig[]; then process_signals
\* handles what arrived before.
cleanup_signal_handlers_loop ==
  /\ Runs /\ pc = "cleanup_loop"
  /\ IF ToReset # {}
     THEN /\ handler' = [handler EXCEPT
                           ![sig_table[CHOOSE j \in ToReset :
                                         \A i \in ToReset : j <= i]] = "SIG_DFL"]
          /\ UNCHANGED <<pc, frames, color_context>>
     ELSE CallTo("process_signals", color_context, "exit")
             /\ UNCHANGED handler
  /\ UNCHANGED <<flagVars, sigmask, sigpending, proc, catchVars, localVars,
                 colorVars, msgVars, lineVars, histVars>>
  /\ UNCHANGED OthersThanSig

\* The program exits.
exit ==
  /\ Runs /\ pc = "exit"
  /\ proc' = "exited"
  /\ UNCHANGED <<ctlVars, flagVars, handler, sigmask, sigpending, catchVars,
                 localVars, colorVars, msgVars, lineVars, histVars>>
  /\ UNCHANGED OthersThanSig

\* An output routine calls set_color_context.
call_set_color_context(c) ==
  /\ Runs /\ pc = "caller"
  /\ CallTo("set_color_context", c, "caller")
  /\ UNCHANGED <<flagVars, kernelVars, catchVars, localVars, colorVars,
                 msgVars, lineVars, histVars>>
  /\ UNCHANGED OthersThanSig

\* The dispositions the program may start with: every signal has its
\* default action, or SIGINT is ignored.
StartHandlers ==
  { [s \in Signals |-> "SIG_DFL"],
    [s \in Signals |-> IF s = "SIGINT" THEN "SIG_IGN" ELSE "SIG_DFL"] }

InitSig ==
  /\ pc = "begin_output" /\ frames = <<>> /\ color_context = RESET_CONTEXT
  /\ interrupt_signal = NoSignal /\ stop_signal_count = 0
  /\ caught_signals = {} /\ some_signals_caught = FALSE
  /\ handler \in StartHandlers
  /\ sigmask = {} /\ sigpending = {} /\ proc = "running"
  /\ oldset = {} /\ stops = 0 /\ sig = NoSignal
  /\ colors_enabled = FALSE /\ last_context = RESET_CONTEXT
  /\ out_seq = <<>> /\ out_color = RESET_CONTEXT
  /\ paginate \in BOOLEAN /\ msg_chain = <<>> /\ msgs_printed = <<>>
  /\ expand_tabs = FALSE /\ tabsize = 1 /\ left = 0 /\ t_char = "limit"
  /\ t_rest = 0 /\ flag_format = FALSE /\ counter_proc_signals = 0
  /\ column = 0 /\ tab = 0 /\ written = 0 /\ to_write = 0
  /\ since_poll = NoPoll
  /\ steps = <<>> /\ recorded = <<>> /\ raised = NoSignal
  /\ deliveries = 0 /\ handled = 0

\* Steps of the routines every specification of this group shares.
NextPoll ==
  \/ process_signals_while
  \/ output_1_line_fwrite
  \/ output_1_line_written

NextSig ==
  \/ \E cs \in ColorsStyles, tty \in BOOLEAN, ok \in BOOLEAN :
       check_color_output(cs, tty, ok)
  \/ \E s \in Signals : Deliver(s)
  \/ \E s \in Signals : DeliverPending(s)
  \/ Continue
  \/ NextPoll
  \/ process_signals_reset
  \/ process_signals_fflush
  \/ process_signals_block
  \/ process_signals_load
  \/ process_signals_default
  \/ process_signals_raise
  \/ process_signals_setmask
  \/ set_color_context_poll
  \/ set_color_context_left
  \/ set_color_context_code
  \/ set_color_context_right
  \/ \E c \in CallerContexts : call_set_color_context(c)
  \/ \E n \in {1, MAX_CHUNK + 1} : call_output_1_line(n, "x", FALSE)
  \/ message
  \/ print_message_queue
  \/ cleanup_signal_handlers
  \/ cleanup_signal_handlers_loop
  \/ exit

InitSpecSig == IdleFunky /\ IdleOut /\ IdleCase /\ IdleMq /\ IdleFatal /\ IdlePal /\ IdleNl /\ IdleRange /\ IdleLcs /\ IdleSync /\ IdleHunk /\ IdleScript /\ InitSig

SpecSig == InitSpecSig /\ [][NextSig]_vars

\* output_1_line on its own: no signal arrives, and lines of every length up
\* to MaxLine are written in both modes.
InitLine ==
  /\ pc = "caller" /\ frames = <<>> /\ color_context = RESET_CONTEXT
  /\ interrupt_signal = NoSignal /\ stop_signal_count = 0
  /\ caught_signals = {} /\ some_signals_caught = FALSE
  /\ handler = [s \in Signals |-> "SIG_DFL"]
  /\ sigmask = {} /\ sigpending = {} /\ proc = "running"
  /\ oldset = {} /\ stops = 0 /\ sig = NoSignal
  /\ colors_enabled = FALSE /\ last_context = RESET_CONTEXT
  /\ out_seq = <<>> /\ out_color = RESET_CONTEXT
  /\ paginate = FALSE /\ msg_chain = <<>> /\ msgs_printed = <<>>
  /\ expand_tabs \in BOOLEAN /\ tabsize \in 1..MaxTabSize
  /\ left = 0 /\ t_char = "limit"
  /\ t_rest = 0 /\ flag_format = FALSE /\ counter_proc_signals = 0
  /\ column = 0 /\ tab = 0 /\ written = 0 /\ to_write = 0
  /\ since_poll = NoPoll
  /\ steps = <<>> /\ recorded = <<>> /\ raised = NoSignal
  /\ deliveries = 0 /\ handled = 0

NextLine ==
  \/ \E n \in 0..MaxLine, c \in Chars, ff \in BOOLEAN :
       call_output_1_line(n, c, ff)
  \/ NextPoll
  \/ output_1_line_count
  \/ output_1_line_switch

InitSpecLine == IdleFunky /\ IdleOut /\ IdleCase /\ IdleMq /\ IdleFatal /\ IdlePal /\ IdleNl /\ IdleRange /\ IdleLcs /\ IdleSync /\ IdleHunk /\ IdleScript /\ InitLine

SpecLine == InitSpecLine /\ [][NextLine]_vars

----------------------------------------------------------------------------
(* The build of util.c without sigaction: SA_NOCLDSTOP is defined as 0 and *)
(* sigprocmask (How, Set, Oset) as 0 (util.c:38-40), so process_signals    *)
(* blocks nothing and a handler can run between any two of its statements; *)
(* the handlers install themselves again with signal.                      *)

\* What the kernel does when it delivers signal s on this build: sighandler
\* calls signal (sig, SIG_IGN) and stophandler signal (sig, stophandler)
\* before they record the signal.
Deliver_nosigaction(s) ==
  /\ proc = "running"
  /\ ~sa_nocldstop
  /\ deliveries < MaxDeliveries
  /\ deliveries' = deliveries + 1
  /\ CASE handler[s] = "SIG_IGN" ->
            UNCHANGED <<flagVars, proc, recorded, handled, handler>>
       [] handler[s] = "SIG_DFL" ->
            /\ proc' = IF s = "SIGTSTP" THEN "stopped" ELSE "killed"
            /\ UNCHANGED <<flagVars, recorded, handled, handler>>
       [] handler[s] = "sighandler" ->
            /\ handler' = [handler EXCEPT ![s] = "SIG_IGN"]
            /\ sighandler(s) /\ handled' = handled + 1 /\ UNCHANGED proc
       [] handler[s] = "stophandler" ->
            /\ handler' = [handler EXCEPT ![s] = "stophandler"]
            /\ stophandler(s) /\ handled' = handled + 1 /\ UNCHANGED proc
  /\ UNCHANGED <<ctlVars, sigmask, sigpending, catchVars, localVars, colorVars,
                 msgVars, lineVars, steps, raised>>
  /\ UNCHANGED OthersThanSig

\* xsigprocmask (SIG_BLOCK, &caught_signals, &oldset) and
\* xsigprocmask (SIG_SETMASK, &oldset, nullptr): sigprocmask is the
\* constant 0, the mask and oldset are not touched.
xsigprocmask_nosigaction ==
  /\ Runs /\ ~sa_nocldstop
  /\ pc \in {"ps_block", "ps_setmask"}
  /\ pc' = IF pc = "ps_block" THEN "ps_load" ELSE "process_signals"
  /\ steps' = Append(steps, IF pc = "ps_block" THEN "SIG_BLOCK" ELSE "SIG_SETMASK")
  /\ UNCHANGED <<frames, color_context, flagVars, kernelVars, catchVars,
                 localVars, colorVars, msgVars, lineVars, recorded, raised,
                 deliveries, handled>>
  /\ UNCHANGED OthersThanSig

\* int stops = stop_signal_count, sig;
process_signals_stops ==
  /\ Runs /\ ~sa_nocldstop
  /\ pc = "ps_load"
  /\ pc' = "ps_test"
  /\ stops' = stop_signal_count
  /\ UNCHANGED <<frames, color_context, flagVars, kernelVars, catchVars,
                 oldset, sig, colorVars, msgVars, lineVars, histVars>>
  /\ UNCHANGED OthersThanSig

\* if (stops) { stop_signal_count = stops - 1; sig = SIGSTOP; }
\* else { sig = interrupt_signal; ...
process_signals_test ==
  /\ Runs /\ ~sa_nocldstop
  /\ pc = "ps_test"
  /\ sig' = SignalFor(stops)
  /\ IF stops # 0
     THEN /\ stop_signal_count' = stops - 1
          /\ pc' = "ps_raise"
     ELSE /\ pc' = "ps_default"
          /\ UNCHANGED stop_signal_count
  /\ UNCHANGED <<frames, color_context, interrupt_signal, kernelVars,
                 catchVars, oldset, stops, colorVars, msgVars, lineVars,
                 histVars>>
  /\ UNCHANGED OthersThanSig

InitNoSigaction ==
  /\ InitSig
  /\ sync_pc = "off" /\ installed = "no" /\ signal_count = <<>>
  /\ possible_signal_count = FALSE
  /\ sync_caught_signals = {} /\ oldact = <<>> /\ sync_handler = <<>>
  /\ sync_sigmask = {} /\ sync_sigpending = {} /\ sync_proc = "off"
  /\ poll_sig = NoSignal /\ poll_i = 0 /\ poll_oldset = {}
  /\ sync_recorded = <<>> /\ sync_returned = <<>> /\ sync_deliveries = 0
  /\ sa_nocldstop = FALSE /\ deliver_sig = NoSignal /\ act = "SIG_DFL"
  /\ install_flags = {} /\ pre_install = <<>> /\ deliver_arg = NoSignal
  /\ deliver_before = <<>> /\ raised_as = <<>>

NextNoSigaction ==
  \/ \E cs \in ColorsStyles, tty \in BOOLEAN, ok \in BOOLEAN :
       check_color_output(cs, tty, ok)
  \/ \E s \in Signals : Deliver_nosigaction(s)
  \/ Continue
  \/ process_signals_while
  \/ process_signals_reset
  \/ process_signals_fflush
  \/ xsigprocmask_nosigaction
  \/ process_signals_stops
  \/ process_signals_test
  \/ process_signals_default
  \/ process_signals_raise
  \/ set_color_context_poll
  \/ set_color_context_left
  \/ set_color_context_code
  \/ set_color_context_right
  \/ \E c \in CallerContexts : call_set_color_context(c)

InitSpecNoSigaction == IdleFunky /\ IdleOut /\ IdleCase /\ IdleMq /\ IdleFatal /\ IdlePal /\ IdleNl /\ IdleRange /\ IdleLcs /\ IdleHunk /\ IdleScript /\ InitNoSigaction

SpecNoSigaction == InitSpecNoSigaction /\ [][NextNoSigaction]_vars

----------------------------------------------------------------------------
(* Claims about output_1_line and the signal handling of util.c *)

\* C5 (as stated): output_1_line calls process_signals at least once per
\* MAX_CHUNK bytes of output, in plain mode and in tab-expanding mode alike:
\* never more than MAX_CHUNK bytes are written since the last poll.
C5_PollPerChunkOfOutput == since_poll.bytes <= MAX_CHUNK

\* C5 (amended): in plain mode at most MAX_CHUNK bytes are written between
\* two polls; with -t the poll comes once per MAX_CHUNK passes of the loop,
\* so at most MAX_CHUNK characters of the line are handled between two polls,
\* whatever number of bytes their expansion writes.
C5_PollPerChunk ==
  /\ ~expand_tabs => since_poll.bytes <= MAX_CHUNK
  /\ expand_tabs => since_poll.chars <= MAX_CHUNK

\* With -t, MAX_CHUNK characters were handled since the last poll and they
\* wrote more than MAX_CHUNK bytes.
C5_Witness ==
  /\ expand_tabs
  /\ since_poll.chars = MAX_CHUNK
  /\ since_poll.bytes > MAX_CHUNK

\* One pass of the switch of output_1_line that wrote what it had to write.
SwitchStep == pc = "o1l_switch" /\ pc' = "o1l_tab"

\* The bytes the pass wrote.
BytesOfStep == since_poll'.bytes - since_poll.bytes

\* The tracked position on the line, in columns from its start.
TrackedPosition == tab * tabsize + column

\* C33: with tab expansion on, output_1_line replaces each tab by exactly
\* the spaces that reach the next multiple of the tab size (between 1 and
\* tabsize of them), keeps 0 <= column < tabsize after every character,
\* resets the column at a carriage return and writes the line flag again
\* after a carriage return that is followed by more of the line, and writes
\* no backspace when the tracked position is the start of the line.
C33_TabExpansion ==
  [][SwitchStep =>
       /\ 0 <= column' /\ column' < tabsize
       /\ t_char = "TAB" =>
            /\ 1 <= BytesOfStep /\ BytesOfStep <= tabsize
            /\ TrackedPosition' = TrackedPosition + BytesOfStep
            /\ TrackedPosition' % tabsize = 0
       /\ t_char = "CR" =>
            /\ column' = 0 /\ TrackedPosition' = 0
            /\ BytesOfStep = 1 + (IF flag_format /\ t_char' \notin {"limit", "NL"}
                                  THEN FlagBytes ELSE 0)
       /\ t_char = "BS" =>
            IF TrackedPosition = 0
            THEN BytesOfStep = 0 /\ TrackedPosition' = 0
            ELSE BytesOfStep = 1 /\ TrackedPosition' = TrackedPosition - 1
  ]_vars

\* A tab in the middle of a tab stop was expanded to fewer than tabsize
\* spaces, and they were written.
C33_Witness ==
  /\ expand_tabs /\ pc = "o1l_tab"
  /\ tabsize > 1
  /\ tab = 1 /\ column = 0
  /\ since_poll.chars = 2
  /\ since_poll.bytes = tabsize

IsPrefix(s, t) == Len(s) <= Len(t) /\ s = SubSeq(t, 1, Len(s))

\* The steps of one iteration of process_signals for a terminating signal,
\* and for a stop.
TerminatingOrder ==
  <<"set_color_context", "fflush", "SIG_BLOCK", "SIG_DFL", "raise", "SIG_SETMASK">>
StopOrder ==
  <<"set_color_context", "fflush", "SIG_BLOCK", "raise", "SIG_SETMASK">>

\* C6: for a terminating signal process_signals resets the color, flushes
\* stdout, blocks the caught signals, restores the signal's default
\* disposition, raises it and restores the mask, in this order; the signal
\* raised is the first terminating signal that was recorded, it is blocked
\* and has its default disposition when raised, and the process dies of it
\* only once the mask is restored.
C6_TerminatingSignalSteps ==
  /\ IsPrefix(steps, TerminatingOrder) \/ IsPrefix(steps, StopOrder)
  /\ (pc = "ps_raise" /\ sig # SIGSTOP) =>
       /\ steps = SubSeq(TerminatingOrder, 1, 4)
       /\ sig = recorded[1]
       /\ sig \in sigmask
       /\ handler[sig] = "SIG_DFL"
  /\ raised \in Signals =>
       /\ raised = recorded[1]
       /\ steps = IF pc = "ps_setmask" THEN SubSeq(TerminatingOrder, 1, 5)
                  ELSE TerminatingOrder
       /\ pc = "ps_setmask" => proc = "running" /\ raised \in sigpending
       /\ pc # "ps_setmask" => (proc = "killed" \/ raised \in sigpending)

\* Two handler runs happened, the first terminating signal recorded was
\* SIGINT, and the process died of it after all six steps.
C6_Witness ==
  /\ proc = "killed"
  /\ raised = "SIGINT"
  /\ handled >= 2
  /\ steps = TerminatingOrder

Range(s) == { s[k] : k \in 1..Len(s) }

\* C7 (as stated): when a terminating signal is processed, every message
\* still held in the message queue is printed before the process re-raises
\* the signal and dies.
C7_QueuePrintedOnSignal ==
  (proc = "killed" /\ raised \in Signals) =>
     \A k \in 1..Len(msg_chain) : msg_chain[k].msgid \in Range(msgs_printed)

\* C7 (amended): process_signals flushes stdout but does not print the
\* message queue: when the process dies of the re-raised signal, the messages
\* still held in the queue have not been printed.
C7_QueueNotPrintedOnSignal ==
  (proc = "killed" /\ raised \in Signals) =>
     \A k \in 1..Len(msg_chain) :
        ~msg_chain[k].freed => msg_chain[k].msgid \notin Range(msgs_printed)

\* The process died of a re-raised signal while a message was queued.
C7_Witness ==
  /\ proc = "killed"
  /\ raised \in Signals
  /\ msg_chain # <<>>
  /\ ~msg_chain[1].freed

\* C8: a handler run only records the signal: sighandler stores into
\* interrupt_signal only when it is 0, stophandler only adds one to
\* stop_signal_count and only when interrupt_signal is 0, a handler run
\* changes nothing of the output, the color state, the message queue or
\* the main program's position, and no step at all overwrites a recorded
\* interrupt_signal.
C8_HandlersOnlyRecord ==
  [][ /\ interrupt_signal # NoSignal => interrupt_signal' = interrupt_signal
      /\ handled' # handled =>
           /\ UNCHANGED <<ctlVars, colorVars, msgVars, lineVars, localVars>>
           /\ interrupt_signal' # interrupt_signal =>
                /\ interrupt_signal = NoSignal
                /\ stop_signal_count' = stop_signal_count
           /\ stop_signal_count' # stop_signal_count =>
                /\ interrupt_signal = NoSignal
                /\ interrupt_signal' = interrupt_signal
                /\ stop_signal_count' = stop_signal_count + 1 ]_vars

\* Three handlers ran while a color sequence was partly written; the first
\* terminating signal is still the one recorded and one stop was counted.
C8_Witness ==
  /\ handled >= 3
  /\ Len(recorded) = 1
  /\ interrupt_signal = recorded[1]
  /\ stop_signal_count = 1
  /\ out_seq # <<>>

\* C9: process_signals reaches raise only when no color sequence is partly
\* written, and when colors are enabled the last sequence written before
\* raise is the reset sequence (last_context = RESET_CONTEXT); the same holds
\* when the process has died of the signal it raised.
C9_RaiseOutsideColorSequence ==
  (pc \in {"ps_raise", "ps_setmask"} \/ (proc = "killed" /\ raised \in Signals)) =>
     /\ out_seq = <<>>
     /\ colors_enabled => last_context = RESET_CONTEXT /\ out_color = RESET_CONTEXT

\* process_signals is about to raise a terminating signal; it was called from
\* set_color_context (ADD_CONTEXT) while the delete color was in effect.
C9_Witness ==
  /\ pc = "ps_raise"
  /\ sig \in Signals
  /\ colors_enabled
  /\ out_color = RESET_CONTEXT
  /\ color_context = "ADD_CONTEXT"
  /\ \E k \in 1..Len(frames) : frames[k].pc = "scc_test"

\* process_signals runs on behalf of cleanup_signal_handlers.
InCleanup == \E k \in 1..Len(frames) : frames[k].pc = "exit"

\* C22: cleanup_signal_handlers, when signals are caught, gives every caught
\* signal its default action before it processes the recorded signals; when
\* it has returned, interrupt_signal and stop_signal_count are zero and no
\* terminating signal was recorded that did not end the process; when no
\* signal is caught the call changes nothing.
C22_CleanupResetsThenProcesses ==
  /\ [](/\ InCleanup =>
             \A s \in caught_signals : handler[s] = "SIG_DFL"
        /\ pc = "exit" =>
             /\ interrupt_signal = NoSignal /\ stop_signal_count = 0
             /\ recorded = <<>>
             /\ \A s \in caught_signals : handler[s] = "SIG_DFL")
  /\ [][(pc = "caller" /\ pc' \in {"cleanup_loop", "exit"}) =>
          /\ pc' = "exit" <=> ~some_signals_caught
          /\ UNCHANGED <<frames, color_context, flagVars, kernelVars, catchVars,
                         localVars, colorVars, msgVars, histVars>>]_vars

\* SIGINT was the one signal sent, its handler recorded it before it was
\* reset, and process_signals, called by cleanup_signal_handlers, has
\* raised it: it is pending with its default action until the mask is restored.
C22_Witness ==
  /\ pc = "ps_setmask" /\ InCleanup
  /\ raised = "SIGINT" /\ recorded = <<"SIGINT">>
  /\ steps = SubSeq(TerminatingOrder, 1, 5)
  /\ deliveries = 1

\* output_1_line is about to write more of a line with colors enabled.
WritesLineContent == pc = "o1l_plain" /\ left > 0 /\ colors_enabled

\* The color the output was in when the caller handed the line to
\* output_1_line.
ColorOfLine == frames[Len(frames)].last_context

\* C30: every caller of process_signals changes the color immediately
\* afterwards: when process_signals has handled a signal and reset the
\* colors, the color that was in effect is set again before more of the line
\* is written, so whenever output_1_line writes line content the output is in
\* the color the line was begun in.
C30_ColorSetAgainBeforeLineContent ==
  WritesLineContent => out_color = ColorOfLine

\* The stops that stophandler has counted and for which process_signals has
\* still to raise SIGSTOP: those in stop_signal_count and the one it has
\* taken from the count and is about to raise.
StopsOwed ==
  stop_signal_count + (IF pc = "ps_raise" /\ sig = SIGSTOP THEN 1 ELSE 0)

\* This step is a run of stophandler that counts a stop: a handler ran and
\* no terminating signal was or is recorded.
StopCounted ==
  handled' = handled + 1 /\ interrupt_signal = NoSignal
  /\ interrupt_signal' = NoSignal

\* This step is raise (sig) of process_signals, for a stop.
StopRaised == pc = "ps_raise" /\ pc' = "ps_setmask" /\ sig = SIGSTOP

\* This step is the return of process_signals.
ProcessSignalsReturns ==
  pc = "process_signals" /\ pc' # "process_signals" /\ pc' # "ps_reset"

\* C34: process_signals raises SIGSTOP exactly once for each stop that
\* stophandler counted: the stops still owed grow by one with each stop
\* counted and shrink by one with each SIGSTOP raised, at any moment a signal
\* arrives, and none is owed when process_signals returns.  When it raises
\* a terminating signal no stop is owed, it never raises signal 0, and it
\* returns only when neither a stop nor a terminating signal is recorded.
C34_EachStopRaisedOnce ==
  /\ [](pc = "ps_raise" => sig # NoSignal)
  /\ []((pc \in {"ps_default", "ps_raise"} /\ sig # SIGSTOP) => StopsOwed = 0)
  /\ [][/\ StopsOwed' = StopsOwed + (IF StopCounted THEN 1 ELSE 0)
                                   - (IF StopRaised THEN 1 ELSE 0)
        /\ StopRaised => (raised' = SIGSTOP /\ proc' = "stopped")
        /\ ProcessSignalsReturns =>
             (StopsOwed = 0 /\ interrupt_signal = NoSignal)]_vars

\* This step writes an indicator to outfile.
WritesIndicator == out_seq' # out_seq

\* C35: set_color_context writes a color sequence only when colors are
\* enabled and the requested context differs from the last one written; the
\* sequence is exactly the left indicator, the code of the requested context
\* and the right indicator; last_context is the context of the last sequence
\* written, RESET_CONTEXT before any; a call with the context last written
\* and a call with colors disabled write nothing.
C35_SequenceOnlyOnChange ==
  /\ [](last_context = out_color)
  /\ [][/\ WritesIndicator =>
             /\ colors_enabled
             /\ \/ /\ pc = "scc_test" /\ last_context # color_context
                   /\ out_seq' = <<"C_LEFT">>
                \/ /\ pc = "scc_code"
                   /\ out_seq' = <<"C_LEFT", IndicatorOf(color_context)>>
                \/ /\ pc = "scc_right"
                   /\ out_seq = <<"C_LEFT", IndicatorOf(color_context)>>
                   /\ out_seq' = <<>>
                   /\ last_context' = color_context
        /\ last_context' # last_context => (pc = "scc_right" /\ WritesIndicator)
       ]_vars

\* The sequence for ADD_CONTEXT is being written after the one for
\* DELETE_CONTEXT: the left indicator and the code are out, the right
\* indicator is next.
C35_Witness ==
  /\ pc = "scc_right" /\ colors_enabled
  /\ color_context = "ADD_CONTEXT"
  /\ out_seq = <<"C_LEFT", "C_ADD">>
  /\ last_context = "DELETE_CONTEXT" /\ out_color = "DELETE_CONTEXT"

----------------------------------------------------------------------------
(***************************************************************************)
(* syncsig.c: synchronous signal handling.  A program installs the         *)
(* handlers, polls, and uninstalls; the kernel delivers signals between    *)
(* any two of its steps.  This is the build in which SA_NOCLDSTOP is       *)
(* nonzero: sighandler is installed by sigaction with sa_mask =            *)
(* caught_signals, so one run of it is an atomic step, and sigprocmask     *)
(* blocks.                                                                 *)
(***************************************************************************)

MaxSyncDeliveries == 3      \* signals sent to the process in one behaviour

\* catchable[]: the first five signals of the table, SIGQUIT, SIGTERM and
\* the three stop signals, in the table's order.
catchable == <<"SIGALRM", "SIGCHLD", "SIGCONT", "SIGHUP", "SIGINT", "SIGQUIT",
               "SIGTERM", "SIGTSTP", "SIGTTIN", "SIGTTOU">>
SyncSignals == { catchable[k] : k \in 1..Len(catchable) }

\* The signals the kernel sends in the specification of syncsig_poll.
SentSignals == {"SIGINT", "SIGTERM", "SIGTSTP"}

\* The number of each signal, as oldact[] and signal_count[] are indexed by
\* it: the numbers POSIX fixes and those of GNU/Linux.
SignalNumber(s) ==
  CASE s = "SIGHUP" -> 1 [] s = "SIGINT" -> 2 [] s = "SIGQUIT" -> 3
    [] s = "SIGALRM" -> 14 [] s = "SIGTERM" -> 15 [] s = "SIGCHLD" -> 17
    [] s = "SIGCONT" -> 18 [] s = "SIGTSTP" -> 20 [] s = "SIGTTIN" -> 21
    [] s = "SIGTTOU" -> 22

\* The indices of oldact[countof (signal_count)].
Slots == 0..SignalNumber("SIGTTOU")

\* What the default action of a signal does to the process.
DefaultAction(s) ==
  IF s \in {"SIGTSTP", "SIGTTIN", "SIGTTOU"} THEN "stopped"
  ELSE IF s \in {"SIGCHLD", "SIGCONT"} THEN "running"
  ELSE "killed"

\* The flags of syncsig_install.
SyncFlags == SUBSET {"SYNCSIG_TSTP", "SYNCSIG_TTIN", "SYNCSIG_TTOU"}

SyncRuns == sync_proc = "running" /\ sync_sigpending \ sync_sigmask = {}

\* A variant of the handler that does not set possible_signal_count.
syncsig_sighandler_count_only(s) ==
  /\ signal_count' = [signal_count EXCEPT ![s] = @ + 1]
  /\ sync_recorded' = [sync_recorded EXCEPT ![s] = @ + 1]
  /\ UNCHANGED possible_signal_count

\* sighandler of syncsig.c: possible_signal_count = true; signal_count[sig]++;
syncsig_sighandler(s) ==
  /\ possible_signal_count' = TRUE
  /\ signal_count' = [signal_count EXCEPT ![s] = @ + 1]
  /\ sync_recorded' = [sync_recorded EXCEPT ![s] = @ + 1]

\* What the kernel does when it delivers signal s.
SyncDispose(s) ==
  CASE sync_handler[s] = "SIG_IGN" ->
         UNCHANGED <<possible_signal_count, signal_count, sync_recorded, sync_proc>>
    [] sync_handler[s] = "SIG_DFL" ->
         /\ sync_proc' = DefaultAction(s)
         /\ UNCHANGED <<possible_signal_count, signal_count, sync_recorded>>
    [] sync_handler[s] = "sighandler" ->
         syncsig_sighandler(s) /\ UNCHANGED sync_proc

\* A signal is sent to the process.
SyncDeliver(s) ==
  /\ sync_proc = "running"
  /\ sync_deliveries < MaxSyncDeliveries
  /\ sync_deliveries' = sync_deliveries + 1
  /\ IF s \in sync_sigmask
     THEN /\ sync_sigpending' = sync_sigpending \cup {s}
          /\ UNCHANGED <<possible_signal_count, signal_count, sync_recorded,
                         sync_proc>>
     ELSE /\ SyncDispose(s)
          /\ UNCHANGED sync_sigpending
  /\ UNCHANGED <<sync_pc, installed, sync_caught_signals, oldact,
                 sync_handler, sync_sigmask, poll_sig, poll_i, poll_oldset,
                 sync_returned>>
  /\ UNCHANGED deliverVars
  /\ UNCHANGED OthersThanSync

\* A pending signal is delivered once it is no longer blocked.
SyncDeliverPending(s) ==
  /\ sync_proc = "running"
  /\ s \in sync_sigpending \ sync_sigmask
  /\ sync_sigpending' = sync_sigpending \ {s}
  /\ SyncDispose(s)
  /\ UNCHANGED <<sync_pc, installed, sync_caught_signals, oldact,
                 sync_handler, sync_sigmask, poll_sig, poll_i, poll_oldset,
                 sync_returned, sync_deliveries>>
  /\ UNCHANGED deliverVars
  /\ UNCHANGED OthersThanSync

\* SIGCONT resumes a stopped process.
SyncContinue ==
  /\ sync_proc = "stopped"
  /\ sync_proc' = "running"
  /\ UNCHANGED <<sync_pc, installed, signal_count, possible_signal_count,
                 sync_caught_signals, oldact, sync_handler, sync_sigmask,
                 sync_sigpending, poll_sig, poll_i, poll_oldset,
                 sync_recorded, sync_returned, sync_deliveries>>
  /\ UNCHANGED deliverVars
  /\ UNCHANGED OthersThanSync

\* A variant that skips SIGTSTP alone.
Skipped_tstp_only(s, flags) == s = "SIGTSTP" /\ "SYNCSIG_TSTP" \notin flags

\* syncsig_install skips the stop signals whose flag is not given.
Skipped(s, flags) ==
  \/ s = "SIGTSTP" /\ "SYNCSIG_TSTP" \notin flags
  \/ s = "SIGTTIN" /\ "SYNCSIG_TTIN" \notin flags
  \/ s = "SIGTTOU" /\ "SYNCSIG_TTOU" \notin flags

\* The element of oldact in which syncsig_install saves the action of
\* catchable[k] (k counts from 1): oldact[sig] where sigaction is present,
\* oldact[i] with the table index i otherwise.
SavedSlot(k) == IF sa_nocldstop THEN SignalNumber(catchable[k]) ELSE k - 1

\* The element of oldact that syncsig_uninstall and syncsig_deliver read for
\* signal s: oldact[sig] on both builds.
RestoredSlot(s) == SignalNumber(s)

\* syncsig_install: the counts are cleared, the old actions are saved, and
\* sighandler is installed for every signal considered that is not ignored.
syncsig_install(flags) ==
  /\ SyncRuns /\ sync_pc = "main" /\ installed = "no"
  /\ installed' = "yes"
  /\ signal_count' = [s \in SyncSignals |-> 0]
  /\ possible_signal_count' = FALSE
  /\ oldact' = [n \in Slots |->
                  IF \E k \in 1..Len(catchable) :
                       ~Skipped(catchable[k], flags) /\ SavedSlot(k) = n
                  THEN sync_handler[catchable[
                         CHOOSE k \in 1..Len(catchable) :
                           ~Skipped(catchable[k], flags) /\ SavedSlot(k) = n]]
                  ELSE oldact[n]]
  /\ sync_caught_signals' =
       { s \in SyncSignals : ~Skipped(s, flags) /\ sync_handler[s] # "SIG_IGN" }
  /\ sync_handler' = [s \in SyncSignals |->
                        IF ~Skipped(s, flags) /\ sync_handler[s] # "SIG_IGN"
                        THEN "sighandler" ELSE sync_handler[s]]
  /\ install_flags' = flags
  /\ pre_install' = sync_handler
  /\ UNCHANGED <<sync_pc, sync_sigmask, sync_sigpending, sync_proc, poll_sig,
                 poll_i, poll_oldset, sync_recorded, sync_returned,
                 sync_deliveries>>
  /\ UNCHANGED <<sa_nocldstop, deliver_sig, act, deliver_arg, deliver_before,
                 raised_as>>
  /\ UNCHANGED OthersThanSync

\* syncsig_uninstall: every caught signal gets its old action back.
syncsig_uninstall ==
  /\ SyncRuns /\ sync_pc = "main" /\ installed = "yes"
  /\ installed' = "undone"
  /\ sync_handler' = [s \in SyncSignals |->
                        IF s \in sync_caught_signals
                        THEN oldact[RestoredSlot(s)]
                        ELSE sync_handler[s]]
  /\ UNCHANGED <<sync_pc, signal_count, possible_signal_count,
                 sync_caught_signals, oldact, sync_sigmask, sync_sigpending,
                 sync_proc, poll_sig, poll_i, poll_oldset, sync_recorded,
                 sync_returned, sync_deliveries>>
  /\ UNCHANGED deliverVars
  /\ UNCHANGED OthersThanSync

\* syncsig_poll: int sig = 0; if (possible_signal_count)
syncsig_poll_test ==
  /\ SyncRuns /\ sync_pc = "main" /\ installed # "no"
  /\ poll_sig' = NoSignal
  /\ sync_pc' = IF possible_signal_count THEN "poll_block" ELSE "poll_return"
  /\ UNCHANGED <<installed, signal_count, possible_signal_count,
                 sync_caught_signals, oldact, sync_handler, sync_sigmask,
                 sync_sigpending, sync_proc, poll_i, poll_oldset,
                 sync_recorded, sync_returned, sync_deliveries>>
  /\ UNCHANGED deliverVars
  /\ UNCHANGED OthersThanSync

\* sigprocmask (SIG_BLOCK, &caught_signals, &oldset); and i = 0
syncsig_poll_block ==
  /\ SyncRuns /\ sync_pc = "poll_block"
  /\ poll_oldset' = sync_sigmask
  /\ sync_sigmask' = sync_sigmask \cup sync_caught_signals
  /\ poll_i' = 1
  /\ sync_pc' = "poll_scan"
  /\ UNCHANGED <<installed, signal_count, possible_signal_count,
                 sync_caught_signals, oldact, sync_handler, sync_sigpending,
                 sync_proc, poll_sig, sync_recorded, sync_returned,
                 sync_deliveries>>
  /\ UNCHANGED deliverVars
  /\ UNCHANGED OthersThanSync

\* One pass of the scan: at the end of the table possible_signal_count is
\* cleared; a signal with a nonzero count is taken; otherwise i++.
syncsig_poll_scan ==
  /\ SyncRuns /\ sync_pc = "poll_scan"
  /\ IF poll_i = Len(catchable) + 1
     THEN /\ possible_signal_count' = FALSE
          /\ sync_pc' = "poll_setmask"
          /\ UNCHANGED <<signal_count, poll_sig, poll_i>>
     ELSE LET s == catchable[poll_i]
              c == signal_count[s]
          IN IF c # 0
             THEN /\ signal_count' = [signal_count EXCEPT ![s] = c - 1]
                  /\ poll_sig' = s
                  /\ sync_pc' = "poll_setmask"
                  /\ UNCHANGED <<possible_signal_count, poll_i>>
             ELSE /\ poll_i' = poll_i + 1
                  /\ UNCHANGED <<possible_signal_count, signal_count,
                                 poll_sig, sync_pc>>
  /\ UNCHANGED <<installed, sync_caught_signals, oldact, sync_handler,
                 sync_sigmask, sync_sigpending, sync_proc, poll_oldset,
                 sync_recorded, sync_returned, sync_deliveries>>
  /\ UNCHANGED deliverVars
  /\ UNCHANGED OthersThanSync

\* sigprocmask (SIG_SETMASK, &oldset, nullptr);
syncsig_poll_setmask ==
  /\ SyncRuns /\ sync_pc = "poll_setmask"
  /\ sync_sigmask' = poll_oldset
  /\ sync_pc' = "poll_return"
  /\ UNCHANGED <<installed, signal_count, possible_signal_count,
                 sync_caught_signals, oldact, sync_handler, sync_sigpending,
                 sync_proc, poll_sig, poll_i, poll_oldset, sync_recorded,
                 sync_returned, sync_deliveries>>
  /\ UNCHANGED deliverVars
  /\ UNCHANGED OthersThanSync

\* return sig;
syncsig_poll_return ==
  /\ SyncRuns /\ sync_pc = "poll_return"
  /\ sync_pc' = "main"
  /\ sync_returned' = IF poll_sig = NoSignal THEN sync_returned
                      ELSE [sync_returned EXCEPT ![poll_sig] = @ + 1]
  /\ UNCHANGED <<installed, signal_count, possible_signal_count,
                 sync_caught_signals, oldact, sync_handler, sync_sigmask,
                 sync_sigpending, sync_proc, poll_sig, poll_i, poll_oldset,
                 sync_recorded, sync_deliveries>>
  /\ UNCHANGED deliverVars
  /\ UNCHANGED OthersThanSync

\* syncsig_deliver (sig), up to the raise: SIGTSTP becomes SIGSTOP, any other
\* signal gets the action read from oldact[sig] and act keeps the action in
\* effect.  The argument is a signal syncsig_poll can have returned.
call_syncsig_deliver(s) ==
  /\ SyncRuns /\ sync_pc = "main" /\ installed = "yes"
  /\ s \in sync_caught_signals
  /\ sync_pc' = "deliver_raise"
  /\ deliver_arg' = s
  /\ deliver_before' = sync_handler
  /\ raised_as' = <<>>
  /\ IF s = "SIGTSTP"
     THEN /\ deliver_sig' = SIGSTOP
          /\ UNCHANGED <<act, sync_handler>>
     ELSE /\ deliver_sig' = s
          /\ act' = sync_handler[s]
          /\ sync_handler' = [sync_handler EXCEPT ![s] = oldact[RestoredSlot(s)]]
  /\ UNCHANGED <<installed, signal_count, possible_signal_count,
                 sync_caught_signals, oldact, sync_sigmask, sync_sigpending,
                 sync_proc, poll_sig, poll_i, poll_oldset, sync_recorded,
                 sync_returned, sync_deliveries>>
  /\ UNCHANGED <<sa_nocldstop, install_flags, pre_install>>
  /\ UNCHANGED OthersThanSync

\* raise (sig): SIGSTOP stops the process, any other signal is disposed of
\* by the action now in effect.
syncsig_deliver_raise ==
  /\ SyncRuns /\ sync_pc = "deliver_raise"
  /\ sync_pc' = "deliver_restore"
  /\ IF deliver_sig = SIGSTOP
     THEN /\ raised_as' = <<SIGSTOP, "SIG_DFL">>
          /\ sync_proc' = "stopped"
          /\ UNCHANGED <<possible_signal_count, signal_count, sync_recorded>>
     ELSE /\ raised_as' = <<deliver_sig, sync_handler[deliver_sig]>>
          /\ SyncDispose(deliver_sig)
  /\ UNCHANGED <<installed, sync_caught_signals, oldact, sync_handler,
                 sync_sigmask, sync_sigpending, poll_sig, poll_i, poll_oldset,
                 sync_returned, sync_deliveries>>
  /\ UNCHANGED <<sa_nocldstop, deliver_sig, act, install_flags, pre_install,
                 deliver_arg, deliver_before>>
  /\ UNCHANGED OthersThanSync

\* The program did not exit due to the raised signal: the action that was in
\* effect at the call comes back, unless SIGSTOP was raised.
syncsig_deliver_restore ==
  /\ SyncRuns /\ sync_pc = "deliver_restore"
  /\ sync_pc' = "main"
  /\ sync_handler' = IF deliver_sig # SIGSTOP
                     THEN [sync_handler EXCEPT ![deliver_sig] = act]
                     ELSE sync_handler
  /\ UNCHANGED <<installed, signal_count, possible_signal_count,
                 sync_caught_signals, oldact, sync_sigmask, sync_sigpending,
                 sync_proc, poll_sig, poll_i, poll_oldset, sync_recorded,
                 sync_returned, sync_deliveries>>
  /\ UNCHANGED deliverVars
  /\ UNCHANGED OthersThanSync

\* The dispositions the program may start with.
StartSyncHandlers ==
  { [s \in SyncSignals |-> "SIG_DFL"],
    [s \in SyncSignals |-> IF s = "SIGINT" THEN "SIG_IGN" ELSE "SIG_DFL"] }

InitSync ==
  /\ sync_pc = "main" /\ installed = "no"
  /\ signal_count = [s \in SyncSignals |-> 0]
  /\ possible_signal_count = FALSE
  /\ sync_caught_signals = {}
  /\ oldact = [n \in Slots |-> "SIG_DFL"]
  /\ sync_handler \in StartSyncHandlers
  /\ sync_sigmask = {} /\ sync_sigpending = {} /\ sync_proc = "running"
  /\ poll_sig = NoSignal /\ poll_i = 0 /\ poll_oldset = {}
  /\ sync_recorded = [s \in SyncSignals |-> 0]
  /\ sync_returned = [s \in SyncSignals |-> 0]
  /\ sync_deliveries = 0
  /\ sa_nocldstop = TRUE /\ deliver_sig = NoSignal /\ act = "SIG_DFL"
  /\ install_flags = {} /\ pre_install = <<>> /\ deliver_arg = NoSignal
  /\ deliver_before = <<>> /\ raised_as = <<>>

NextSync ==
  \/ \E s \in SentSignals : SyncDeliver(s)
  \/ \E s \in SentSignals : SyncDeliverPending(s)
  \/ SyncContinue
  \/ \E flags \in SyncFlags : syncsig_install(flags)
  \/ syncsig_uninstall
  \/ syncsig_poll_test
  \/ syncsig_poll_block
  \/ syncsig_poll_scan
  \/ syncsig_poll_setmask
  \/ syncsig_poll_return

InitSpecSync == IdleFunky /\ IdleOut /\ IdleCase /\ IdleMq /\ IdleFatal /\ IdlePal /\ IdleNl /\ IdleRange /\ IdleLcs /\ IdleHunk /\ IdleScript /\ IdleSig /\ InitSync

SpecSync == InitSpecSync /\ [][NextSync]_vars

(* syncsig_install called again while its handlers are installed, as a     *)
(* program does that sets the signal handling up anew for every file.  The *)
(* function is not atomic: between its statements the handler may run.     *)

\* syncsig_install, the first loop: signal_count[i] = 0 for every i.
syncsig_install_zero ==
  /\ SyncRuns /\ sync_pc = "main" /\ installed = "yes"
  /\ signal_count' = [s \in SyncSignals |-> 0]
  /\ sync_pc' = "install_clear"
  /\ UNCHANGED <<installed, possible_signal_count, sync_caught_signals, oldact,
                 sync_handler, sync_sigmask, sync_sigpending, sync_proc, poll_sig,
                 poll_i, poll_oldset, sync_recorded, sync_returned, sync_deliveries>>
  /\ UNCHANGED deliverVars
  /\ UNCHANGED OthersThanSync

\* syncsig_install: possible_signal_count = false.
syncsig_install_clear ==
  /\ SyncRuns /\ sync_pc = "install_clear"
  /\ possible_signal_count' = FALSE
  /\ sync_pc' = "install_catch"
  /\ UNCHANGED <<installed, signal_count, sync_caught_signals, oldact,
                 sync_handler, sync_sigmask, sync_sigpending, sync_proc, poll_sig,
                 poll_i, poll_oldset, sync_recorded, sync_returned, sync_deliveries>>
  /\ UNCHANGED deliverVars
  /\ UNCHANGED OthersThanSync

\* syncsig_install, the rest, with the flags of the first call: the actions
\* found are saved and sighandler is installed for what is not ignored.
syncsig_install_catch ==
  /\ SyncRuns /\ sync_pc = "install_catch"
  /\ oldact' = [n \in Slots |->
                  IF \E k \in 1..Len(catchable) :
                       ~Skipped(catchable[k], install_flags) /\ SavedSlot(k) = n
                  THEN sync_handler[catchable[
                         CHOOSE k \in 1..Len(catchable) :
                           ~Skipped(catchable[k], install_flags) /\ SavedSlot(k) = n]]
                  ELSE oldact[n]]
  /\ sync_caught_signals' =
       { s \in SyncSignals : ~Skipped(s, install_flags) /\ sync_handler[s] # "SIG_IGN" }
  /\ sync_handler' = [s \in SyncSignals |->
                        IF ~Skipped(s, install_flags) /\ sync_handler[s] # "SIG_IGN"
                        THEN "sighandler" ELSE sync_handler[s]]
  /\ sync_pc' = "main"
  /\ UNCHANGED <<installed, signal_count, possible_signal_count, sync_sigmask,
                 sync_sigpending, sync_proc, poll_sig, poll_i, poll_oldset,
                 sync_recorded, sync_returned, sync_deliveries>>
  /\ UNCHANGED deliverVars
  /\ UNCHANGED OthersThanSync

NextReinstall ==
  \/ \E s \in SentSignals : SyncDeliver(s)
  \/ \E s \in SentSignals : SyncDeliverPending(s)
  \/ SyncContinue
  \/ \E flags \in SyncFlags : syncsig_install(flags)
  \/ syncsig_install_zero
  \/ syncsig_install_clear
  \/ syncsig_install_catch
  \/ syncsig_poll_test
  \/ syncsig_poll_block
  \/ syncsig_poll_scan
  \/ syncsig_poll_setmask
  \/ syncsig_poll_return

InitSpecReinstall == IdleFunky /\ IdleOut /\ IdleCase /\ IdleMq /\ IdleFatal /\ IdlePal /\ IdleNl /\ IdleRange /\ IdleLcs /\ IdleHunk /\ IdleScript /\ IdleSig /\ InitSync

SpecReinstall == InitSpecReinstall /\ [][NextReinstall]_vars

\* C29: whenever possible_signal_count is false every entry of
\* signal_count is zero, in every state between two steps of the main
\* program, syncsig_poll and syncsig_install included.
C29_NoCountWithoutFlag ==
  (sync_pc # "off" /\ ~possible_signal_count) =>
     \A s \in SyncSignals : signal_count[s] = 0

\* syncsig_install, syncsig_deliver and syncsig_uninstall on both builds, from
\* every combination of inherited dispositions; no signal arrives from
\* outside.
InitInstall ==
  /\ sync_pc = "main" /\ installed = "no"
  /\ signal_count = [s \in SyncSignals |-> 0]
  /\ possible_signal_count = FALSE
  /\ sync_caught_signals = {}
  /\ oldact = [n \in Slots |-> "SIG_DFL"]
  /\ sync_handler \in [SyncSignals -> {"SIG_DFL", "SIG_IGN"}]
  /\ sync_sigmask = {} /\ sync_sigpending = {} /\ sync_proc = "running"
  /\ poll_sig = NoSignal /\ poll_i = 0 /\ poll_oldset = {}
  /\ sync_recorded = [s \in SyncSignals |-> 0]
  /\ sync_returned = [s \in SyncSignals |-> 0]
  /\ sync_deliveries = 0
  /\ sa_nocldstop \in BOOLEAN /\ deliver_sig = NoSignal /\ act = "SIG_DFL"
  /\ install_flags = {} /\ pre_install = <<>> /\ deliver_arg = NoSignal
  /\ deliver_before = <<>> /\ raised_as = <<>>

NextInstall ==
  \/ \E flags \in SyncFlags : syncsig_install(flags)
  \/ \E s \in SyncSignals : call_syncsig_deliver(s)
  \/ syncsig_deliver_raise
  \/ syncsig_deliver_restore
  \/ SyncContinue
  \/ syncsig_uninstall

InitSpecInstall == IdleFunky /\ IdleOut /\ IdleCase /\ IdleMq /\ IdleFatal /\ IdlePal /\ IdleNl /\ IdleRange /\ IdleLcs /\ IdleHunk /\ IdleScript /\ IdleSig /\ InitInstall

SpecInstall == InitSpecInstall /\ [][NextInstall]_vars

\* The signal the poll in progress has taken and not yet returned.
Taken(s) ==
  IF sync_pc \in {"poll_setmask", "poll_return"} /\ poll_sig = s THEN 1 ELSE 0

\* The step in which syncsig_poll settles that it returns 0.
PollSettlesZero ==
  \/ sync_pc = "main" /\ sync_pc' = "poll_return"
  \/ sync_pc = "poll_scan" /\ sync_pc' = "poll_setmask" /\ poll_sig' = NoSignal

C11_UninstallUndoesInstall ==
  installed = "undone" =>
    \A s \in SyncSignals : sync_handler[s] = pre_install[s]

\* C12: syncsig_deliver (sig) raises SIGSTOP for SIGTSTP and otherwise raises
\* sig under the disposition sig had before syncsig_install; when it has
\* returned, the process runs and sig has the disposition it had at the call.
C12_DeliverDoesOriginalAction ==
  /\ raised_as # <<>> =>
       raised_as = IF deliver_arg = "SIGTSTP"
                   THEN <<SIGSTOP, "SIG_DFL">>
                   ELSE <<deliver_arg, pre_install[deliver_arg]>>
  /\ (installed = "yes" /\ sync_pc = "main" /\ deliver_arg # NoSignal) =>
       /\ sync_proc # "killed"
       /\ raised_as # <<>>
       /\ sync_handler[deliver_arg] = deliver_before[deliver_arg]
       /\ deliver_before[deliver_arg] = "sighandler"

\* C13: syncsig_install catches a stop signal only when its flag is given,
\* leaves an ignored signal ignored, catches every other signal of the table,
\* and starts with all the counts at zero.
C13_InstallCatches ==
  [][(installed = "no" /\ installed' = "yes") =>
       /\ \A s \in SyncSignals :
            sync_handler'[s] =
              IF \/ s = "SIGTSTP" /\ "SYNCSIG_TSTP" \notin install_flags'
                 \/ s = "SIGTTIN" /\ "SYNCSIG_TTIN" \notin install_flags'
                 \/ s = "SIGTTOU" /\ "SYNCSIG_TTOU" \notin install_flags'
                 \/ sync_handler[s] = "SIG_IGN"
              THEN sync_handler[s]
              ELSE "sighandler"
       /\ sync_caught_signals' =
            { s \in SyncSignals : sync_handler'[s] = "sighandler" }
       /\ \A s \in SyncSignals : signal_count'[s] = 0
       /\ possible_signal_count' = FALSE]_vars

\* syncsig_install has been called with SYNCSIG_TTIN alone on a process that
\* ignored SIGHUP: SIGTTIN and SIGINT are caught, SIGTSTP and SIGHUP are not.
C13_Witness ==
  /\ installed = "yes"
  /\ install_flags = {"SYNCSIG_TTIN"}
  /\ pre_install["SIGHUP"] = "SIG_IGN" /\ pre_install["SIGINT"] = "SIG_DFL"
  /\ pre_install["SIGTTIN"] = "SIG_DFL" /\ pre_install["SIGTSTP"] = "SIG_DFL"
  /\ sync_handler["SIGTTIN"] = "sighandler"
  /\ sync_handler["SIGINT"] = "sighandler"
  /\ sync_handler["SIGTSTP"] = "SIG_DFL"
  /\ sync_handler["SIGHUP"] = "SIG_IGN"

----------------------------------------------------------------------------
(* util.c: translate_line_number, translate_range, print_number_range and  *)
(* the line arithmetic of analyze_hunk.  lin is a signed integer type; it  *)
(* is LinBits wide here.  An addition whose exact result does not fit lin  *)
(* is undefined in C: the build either goes on with the value reduced      *)
(* modulo 2^LinBits or traps.                                               *)

LinBits == 5         \* width of lin, in bits

LIN_MAX == 2 ^ (LinBits - 1) - 1
LIN_MIN == - (2 ^ (LinBits - 1))
lin == LIN_MIN..LIN_MAX

\* The value a lin holds after an addition whose exact result is n.
Wrap(n) == ((n - LIN_MIN) % (2 ^ LinBits)) + LIN_MIN

\* A variant that adds no 1: the internal number itself plus the prefix.
translate_line_number_zero_based(file, i) == Wrap(i + file.prefix_lines)

\* A variant that stops at the ends of lin instead of reducing modulo 2^LinBits.
translate_line_number_saturating(file, i) ==
  IF i + file.prefix_lines + 1 > LIN_MAX THEN LIN_MAX
  ELSE IF i + file.prefix_lines + 1 < LIN_MIN THEN LIN_MIN
  ELSE i + file.prefix_lines + 1

\* translate_line_number: i + file->prefix_lines + 1, added from the left.
translate_line_number(file, i) == Wrap(Wrap(i + file.prefix_lines) + 1)

\* translate_range: *aptr and *bptr.
translate_range(file, a, b) ==
  [aptr |-> Wrap(translate_line_number(file, Wrap(a - 1)) + 1),
   bptr |-> Wrap(translate_line_number(file, Wrap(b + 1)) - 1)]

\* The characters "%d" writes for n.
DigitChars == <<"0", "1", "2", "3", "4", "5", "6", "7", "8", "9">>
RECURSIVE Decimal(_)
Decimal(n) ==
  IF n < 0 THEN <<"-">> \o Decimal(-n)
  ELSE IF n < 10 THEN <<DigitChars[n + 1]>>
  ELSE Decimal(n \div 10) \o <<DigitChars[(n % 10) + 1]>>

\* A variant that always prints both numbers.
print_number_range_pair(sepchar, file, a, b) ==
  LET t == translate_range(file, a, b)
  IN Decimal(t.aptr) \o <<sepchar>> \o Decimal(t.bptr)

\* print_number_range: what it writes to outfile.
print_number_range(sepchar, file, a, b) ==
  LET t == translate_range(file, a, b)
  IN IF t.bptr > t.aptr
     THEN Decimal(t.aptr) \o <<sepchar>> \o Decimal(t.bptr)
     ELSE Decimal(t.bptr)

\* The line arithmetic of analyze_hunk on file 0, for a hunk of two changes
\* that start at line0s[1] and line0s[2] and delete `deleted' lines each:
\* l0 = next->line0 + next->deleted - 1 and show_from += next->deleted.
analyze_hunk_lines(line0s, deleted) ==
  [first0 |-> line0s[1],
   last0 |-> Wrap(Wrap(line0s[2] + deleted) - 1),
   show_from |-> Wrap(Wrap(0 + deleted) + deleted)]

\* The exact values of the additions each function makes, in order.
ExactSteps(c) ==
  CASE c.fn = "translate_line_number" ->
         {c.a + c.prefix_lines, c.a + c.prefix_lines + 1}
    [] c.fn \in {"translate_range", "print_number_range"} ->
         {c.a - 1, c.a - 1 + c.prefix_lines, c.a + c.prefix_lines,
          c.a + c.prefix_lines + 1,
          c.b + 1, c.b + 1 + c.prefix_lines, c.b + c.prefix_lines + 2,
          c.b + c.prefix_lines + 1}
    [] c.fn = "analyze_hunk" ->
         {c.a + c.d, c.a + c.d - 1, c.b + c.d, c.b + c.d - 1, c.d, c.d + c.d}

\* Whether one of them leaves the range of lin.
Overflows(c) == \E n \in ExactSteps(c) : n \notin lin

SepChars == {",", " "}

\* The record of a call.
RangeCall(f, s, p, a, b, d) ==
  [fn |-> f, sepchar |-> s, prefix_lines |-> p, a |-> a, b |-> b, d |-> d]

\* The calls: file->prefix_lines is a count of lines, an internal line number
\* is at least 0 (translate_line_number also gets a - 1), and a range (a, b)
\* has b >= a - 1, b = a - 1 for a range of no lines.
RangeCalls(c) ==
  \/ \E p \in 0..LIN_MAX, i \in (-1)..LIN_MAX :
       c = RangeCall("translate_line_number", ",", p, i, 0, 0)
  \/ \E p \in 0..LIN_MAX, a \in 0..LIN_MAX :
       \E b \in (a - 1)..LIN_MAX :
         c = RangeCall("translate_range", ",", p, a, b, 0)
  \/ \E s \in SepChars, p \in 0..LIN_MAX, a \in 0..LIN_MAX :
       \E b \in (a - 1)..LIN_MAX :
         c = RangeCall("print_number_range", s, p, a, b, 0)
  \/ \E a \in 0..LIN_MAX, b \in 0..LIN_MAX, d \in 0..LIN_MAX :
       c = RangeCall("analyze_hunk", ",", 0, a, b, d)

\* How a call ends: it returns, or an addition that overflowed trapped.
RangeEnds ==
  /\ wrapped' = Overflows(range_call)
  /\ range_pc' \in IF Overflows(range_call) THEN {"returned", "trapped"}
                   ELSE {"returned"}
  /\ UNCHANGED range_call
  /\ UNCHANGED OthersThanRange

call_translate_line_number ==
  /\ range_pc = "call" /\ range_call.fn = "translate_line_number"
  /\ range_ret' = [value |-> translate_line_number(range_call, range_call.a)]
  /\ RangeEnds

call_translate_range ==
  /\ range_pc = "call" /\ range_call.fn = "translate_range"
  /\ range_ret' = translate_range(range_call, range_call.a, range_call.b)
  /\ RangeEnds

call_print_number_range ==
  /\ range_pc = "call" /\ range_call.fn = "print_number_range"
  /\ range_ret' = [outfile |-> print_number_range(range_call.sepchar, range_call,
                                                  range_call.a, range_call.b)]
  /\ RangeEnds

call_analyze_hunk_lines ==
  /\ range_pc = "call" /\ range_call.fn = "analyze_hunk"
  /\ range_ret' = analyze_hunk_lines(<<range_call.a, range_call.b>>, range_call.d)
  /\ RangeEnds

InitRange ==
  /\ range_pc = "call"
  /\ RangeCalls(range_call)
  /\ range_ret = <<>>
  /\ wrapped = FALSE

NextRange ==
  \/ call_translate_line_number
  \/ call_translate_range
  \/ call_print_number_range
  \/ call_analyze_hunk_lines

InitSpecRange ==
  IdleFunky /\ IdleOut /\ IdleCase /\ IdleMq /\ IdleFatal /\ IdlePal /\ IdleNl /\ IdleLcs /\ IdleHunk /\ IdleScript /\ IdleSig /\ IdleSync /\ InitRange

SpecRange == InitSpecRange /\ [][NextRange]_vars

\* The call returned and every addition stayed within lin.
ReturnedExact(fn) ==
  range_pc = "returned" /\ range_call.fn = fn /\ ~wrapped

\* C14: print_number_range prints one number for a range of exactly one
\* line, first<sepchar>last for a range of more than one line, and for a
\* range of no lines the number of the line just before the range.
C14_PrintNumberRange ==
  ReturnedExact("print_number_range") =>
    LET c == range_call
        first == c.a + c.prefix_lines + 1
        last == c.b + c.prefix_lines + 1
        nlines == c.b - c.a + 1
    IN /\ nlines = 1 => range_ret.outfile = Decimal(first)
       /\ nlines > 1 =>
            range_ret.outfile = Decimal(first) \o <<c.sepchar>> \o Decimal(last)
       /\ nlines < 1 => range_ret.outfile = Decimal(first - 1)

\* Ranges of two lines, of one line and of no lines have been printed.
C14_Witness ==
  /\ ReturnedExact("print_number_range")
  /\ range_call.prefix_lines = 1 /\ range_call.a = 2 /\ range_call.b = 1
  /\ range_ret.outfile = <<"3">>

\* C15: translate_line_number maps i to i + prefix_lines + 1, translate_range
\* maps both ends of (a, b) by the same offset, and so keeps the number of
\* lines of the range, also for a range of no lines (b = a - 1).
C15_TranslateByPrefixLines ==
  /\ ReturnedExact("translate_line_number") =>
       range_ret.value = range_call.a + range_call.prefix_lines + 1
  /\ ReturnedExact("translate_range") =>
       /\ range_ret.aptr = range_call.a + range_call.prefix_lines + 1
       /\ range_ret.bptr = range_call.b + range_call.prefix_lines + 1
       /\ range_ret.bptr - range_ret.aptr = range_call.b - range_call.a

\* A range of no lines after a prefix of two lines has been translated.
C15_Witness ==
  /\ ReturnedExact("translate_range")
  /\ range_call.prefix_lines = 2 /\ range_call.a = 3 /\ range_call.b = 2
  /\ range_ret.aptr = 6 /\ range_ret.bptr = 5

----------------------------------------------------------------------------
(* util.c: print_1_line_nl.  A line is the sequence of its bytes, with or  *)
(* without a final newline; a line flag is a string or the null pointer.   *)

MaxText == 2         \* bytes of a line before its newline

\* LINE_FLAG: nullptr, "", "<" or " ".
LineFlags ==
  { [null |-> TRUE, str |-> <<>>], [null |-> FALSE, str |-> <<>>],
    [null |-> FALSE, str |-> <<"<">>], [null |-> FALSE, str |-> <<" ">>] }

\* The lines: some text and a newline, or some text that ends the file.
TextLines ==
  { t \o <<NL>> : t \in SeqsUpTo({"x"}, MaxText) }
  \cup (SeqsUpTo({"x"}, MaxText) \ {<<>>})

\* limit[-1]
LastByte(line) == line[Len(line)]

\* The marker print_1_line_nl writes: "\n\\ %s\n".
NoNewlineMarker == <<NL, "\\ No newline at end of file", NL>>

\* fprintf (out, flag_format_1, line_flag_1)
PrintLineFlag(c) ==
  IF c.line_flag.null \/ c.line_flag.str = <<>> THEN <<>>
  ELSE IF c.suppress_blank_empty /\ c.line[1] = NL
       THEN IF c.line_flag.str[1] = " " THEN Tail(c.line_flag.str)
            ELSE c.line_flag.str
       ELSE c.line_flag.str \o <<IF c.initial_tab THEN "\t" ELSE " ">>

\* output_1_line (base, limit - (skip_nl && limit[-1] == '\n'), ...): the
\* bytes of a line of plain text as they are.
OutputLine(c) ==
  IF c.skip_nl /\ LastByte(c.line) = NL
  THEN SubSeq(c.line, 1, Len(c.line) - 1)
  ELSE c.line

\* set_color_context (RESET_CONTEXT), as it is called before the marker.
ResetColor(c) ==
  IF c.colors_enabled /\ c.last_context # RESET_CONTEXT
  THEN <<"C_LEFT", "C_RESET", "C_RIGHT">>
  ELSE <<>>

\* A variant of the test before the marker that looks at the line alone.
MarkerDue_any_flag(c) == LastByte(c.line) # NL

\* (!line_flag || line_flag[0]) && limit[-1] != '\n'
MarkerDue(c) ==
  (c.line_flag.null \/ c.line_flag.str # <<>>) /\ LastByte(c.line) # NL

print_1_line_nl ==
  /\ nl_pc = "call"
  /\ nl_pc' = "returned"
  /\ nl_out' = PrintLineFlag(nl_call) \o OutputLine(nl_call)
                 \o (IF MarkerDue(nl_call)
                     THEN ResetColor(nl_call) \o NoNewlineMarker
                     ELSE <<>>)
  /\ UNCHANGED nl_call
  /\ UNCHANGED OthersThanNl

InitNl ==
  /\ nl_pc = "call"
  /\ nl_call \in [line_flag : LineFlags, line : TextLines, skip_nl : BOOLEAN,
                  initial_tab : BOOLEAN, suppress_blank_empty : BOOLEAN,
                  colors_enabled : BOOLEAN,
                  last_context : {RESET_CONTEXT, "ADD_CONTEXT"}]
  /\ nl_out = <<>>

NextNl == print_1_line_nl

InitSpecNl == IdleFunky /\ IdleOut /\ IdleCase /\ IdleMq /\ IdleFatal /\ IdlePal /\ IdleRange /\ IdleLcs /\ IdleHunk /\ IdleScript /\ IdleSig /\ IdleSync /\ InitNl

SpecNl == InitSpecNl /\ [][NextNl]_vars

\* Whether what was written ends with the marker line.
EndsWithMarker ==
  /\ Len(nl_out) >= Len(NoNewlineMarker)
  /\ SubSeq(nl_out, Len(nl_out) - Len(NoNewlineMarker) + 1, Len(nl_out))
       = NoNewlineMarker

\* Whether the text of the line printed ends in a newline character.
TextEndsInNewline == nl_call.line[Len(nl_call.line)] = NL

\* C16 as stated: the marker line follows every printed line whose text does
\* not end in a newline, whatever the line flag, and never a line that ends
\* in a newline.
C16_MarkerAfterEveryUnterminatedLine ==
  nl_pc = "returned" => (EndsWithMarker <=> ~TextEndsInNewline)

\* C16, amended: the marker line follows a printed line whose text does not
\* end in a newline when the line flag is null or not empty; it is written
\* neither after a line printed with an empty line flag nor after a line
\* that ends in a newline.
C16_MarkerUnlessEmptyFlag ==
  nl_pc = "returned" =>
    (EndsWithMarker <=>
       /\ ~TextEndsInNewline
       /\ ~(~nl_call.line_flag.null /\ Len(nl_call.line_flag.str) = 0))

\* A line without a newline was printed with the empty line flag and no
\* marker, and the same line with a flag would get one.
C16_Witness ==
  /\ nl_pc = "returned"
  /\ ~TextEndsInNewline
  /\ ~nl_call.line_flag.null /\ nl_call.line_flag.str = <<>>
  /\ nl_out = nl_call.line

----------------------------------------------------------------------------
(* analyze_hunk and -I *)

\* C17 as stated: with -I active, a line is ignorable when the pattern
\* matches in the text that white-space folding leaves of it, and
\* analyze_hunk applies this test to every deleted and inserted line that is
\* not ignorable as blank.
C17_RegexpOnFoldedLine ==
  (ah_pc = "done" /\ ignore_regexp.fastmap /\ (HunkDeletes \/ HunkInserts)) =>
    ((ah_result.changes = ch_UNCHANGED) <=>
       \A line \in DeletedLines \cup InsertedLines :
         \/ ignore_blank_lines /\ IsBlank(line)
         \/ MatchesRegexpAfterFolding(line))

\* C17, amended: with -I active, a line is ignorable when the pattern
\* matches in the bytes of the line as they are in the file, its newline
\* left out, whatever the white-space option; analyze_hunk applies this test
\* to every deleted and inserted line that is not ignorable as blank, and
\* the hunk is ignored when no line fails both tests.
C17_RegexpOnRawLine ==
  (ah_pc = "done" /\ ignore_regexp.fastmap /\ (HunkDeletes \/ HunkInserts)) =>
    /\ (ah_result.changes = ch_UNCHANGED) <=>
         \A line \in DeletedLines \cup InsertedLines :
           \/ ignore_blank_lines /\ IsBlank(line)
           \/ \E s \in 1..Len(line) :
                /\ s + Len(ignore_regexp.pattern) - 1 <= Len(Content(line))
                /\ SubSeq(line, s, s + Len(ignore_regexp.pattern) - 1)
                     = ignore_regexp.pattern
    /\ (\E line \in DeletedLines \cup InsertedLines :
          ~(ignore_blank_lines /\ IsBlank(line)) /\ ~MatchesRegexp(line))
         => ah_result.changes # ch_UNCHANGED

\* Under ignore-all-space and -I with the pattern of one blank, a hunk whose
\* only line is a blank followed by text was ignored: the blank is matched
\* in the line as it is, though folding would remove it.
C17_Witness ==
  /\ ah_pc = "done"
  /\ ignore_regexp = [fastmap |-> TRUE, pattern |-> <<" ">>]
  /\ ~ignore_blank_lines
  /\ ignore_white_space = "IGNORE_ALL_SPACE"
  /\ DeletedLines = {<<" ", "x", NL>>} /\ InsertedLines = {}
  /\ ~MatchesRegexpAfterFolding(<<" ", "x", NL>>)
  /\ ah_result.changes = ch_UNCHANGED

----------------------------------------------------------------------------
(* util.c: set_color_palette, get_funky_string, parse_diff_color,          *)
(* check_color_output and begin_output.  A palette is the sequence of its  *)
(* characters; the characters are those of PaletteChars, so the octal, hex *)
(* and caret escapes of get_funky_string do not occur.  The signal         *)
(* handlers check_color_output installs are the subject of SpecSig.        *)

MaxPalette == 3      \* longest --palette argument, in characters
MaxFiles == 2        \* comparisons of one run (more than one with -r)

PaletteChars == {"a", "d", "=", ":", "\\", "*"}
Palettes == SeqsUpTo(PaletteChars, MaxPalette)

NUL == "NUL"

\* *p for the offset p into the string s.
CharAt(s, p) == IF p < Len(s) THEN s[p + 1] ELSE NUL

\* The character a backslash escape stands for.
Escaped(ch) == IF ch = "a" THEN "BEL" ELSE ch

\* get_funky_string: [ok, p, str], the offset p left in *src and the
\* characters str written to *dest.  bs: the state is ST_BACKSLASH.
RECURSIVE get_funky_string(_, _, _, _, _)
get_funky_string(s, p, equals_end, bs, str) ==
  LET ch == CharAt(s, p)
  IN IF bs
     THEN IF ch = NUL THEN [ok |-> FALSE, p |-> p + 1, str |-> str]
          ELSE get_funky_string(s, p + 1, equals_end, FALSE,
                                Append(str, Escaped(ch)))
     ELSE IF ch \in {":", NUL} \/ (ch = "=" /\ equals_end)
          THEN [ok |-> TRUE, p |-> p, str |-> str]
          ELSE IF ch = "\\"
               THEN get_funky_string(s, p + 1, equals_end, TRUE, str)
               ELSE get_funky_string(s, p + 1, equals_end, FALSE, Append(str, ch))

indicator_name == {"lc", "rc", "ec", "rs", "hd", "ad", "de", "ln"}

\* The two characters of a label as a name.
LabelName(label) ==
  IF label = <<"a", "d">> THEN "ad"
  ELSE IF label = <<"d", "e">> THEN "de"
  ELSE "??"

\* The loop of parse_diff_color: st holds the state, the offset p, the
\* label, the indicators set and the diagnostics written.
RECURSIVE ParseFrom(_, _)
ParseFrom(s, st) ==
  LET ch == CharAt(s, st.p)
  IN CASE st.state = "PS_START" ->
            IF ch = ":" THEN ParseFrom(s, [st EXCEPT !.p = @ + 1])
            ELSE IF ch = "*"
                 THEN LET f == get_funky_string(s, st.p + 1, TRUE, FALSE, <<>>)
                      IN ParseFrom(s, [st EXCEPT !.p = f.p,
                                         !.state = IF f.ok THEN "PS_4" ELSE "PS_FAIL"])
            ELSE IF ch = NUL THEN [st EXCEPT !.state = "PS_DONE"]
            ELSE ParseFrom(s, [st EXCEPT !.label = <<ch, "?">>, !.p = @ + 1,
                                         !.state = "PS_2"])
       [] st.state = "PS_2" ->
            IF ch # NUL
            THEN ParseFrom(s, [st EXCEPT !.label = <<st.label[1], ch>>,
                                         !.p = @ + 1, !.state = "PS_3"])
            ELSE ParseFrom(s, [st EXCEPT !.state = "PS_FAIL"])
       [] st.state = "PS_3" ->
            IF ch = "=" /\ LabelName(st.label) \in indicator_name
            THEN LET f == get_funky_string(s, st.p + 1, FALSE, FALSE, <<>>)
                 IN IF f.ok
                    THEN ParseFrom(s, [st EXCEPT !.p = f.p, !.state = "PS_START",
                                         !.indicator[LabelName(st.label)] = f.str])
                    ELSE ParseFrom(s, [st EXCEPT !.p = f.p, !.state = "PS_FAIL",
                                         !.errors = Append(@, <<"unrecognized prefix", st.label>>)])
            ELSE IF ch = "="
            THEN ParseFrom(s, [st EXCEPT !.p = @ + 1, !.state = "PS_FAIL",
                                 !.errors = Append(@, <<"unrecognized prefix", st.label>>)])
            ELSE ParseFrom(s, [st EXCEPT !.p = @ + 1, !.state = "PS_FAIL"])
       [] st.state = "PS_4" ->
            IF ch = "="
            THEN LET f == get_funky_string(s, st.p + 1, FALSE, FALSE, <<>>)
                 IN ParseFrom(s, [st EXCEPT !.p = f.p,
                                    !.state = IF f.ok THEN "PS_START" ELSE "PS_FAIL"])
            ELSE ParseFrom(s, [st EXCEPT !.p = @ + 1, !.state = "PS_FAIL"])
       [] st.state = "PS_FAIL" -> st

\* A variant that takes every palette for parsable.
parse_diff_color_lenient(palette, indicator) ==
  [color_palette |-> [null |-> TRUE, str |-> <<>>], indicator |-> indicator,
   errors |-> <<>>, failed |-> FALSE]

\* parse_diff_color: the palette left to parse, the indicators, the
\* diagnostics, and whether it sets colors_enabled to false.
parse_diff_color(palette, indicator) ==
  IF palette.null \/ palette.str = <<>>
  THEN [color_palette |-> palette, indicator |-> indicator, errors |-> <<>>,
        failed |-> FALSE]
  ELSE LET st == ParseFrom(palette.str,
                           [state |-> "PS_START", p |-> 0, label |-> <<"?", "?">>,
                            indicator |-> indicator, errors |-> <<>>])
       IN [color_palette |-> [null |-> TRUE, str |-> <<>>],
           indicator |-> st.indicator,
           errors |-> IF st.state = "PS_FAIL"
                      THEN Append(st.errors, <<"unparsable value for --palette">>)
                      ELSE st.errors,
           failed |-> st.state = "PS_FAIL"]

\* The indicators that --palette can set here, as they start.
DefaultIndicators == [n \in {"ad", "de"} |-> IF n = "ad" THEN <<"3", "2">> ELSE <<"3", "1">>]

\* --palette=PALETTE among the options: set_color_palette only stores it.
set_color_palette(palette) ==
  /\ pal_pc = "options"
  /\ pal_pc' = "compare"
  /\ color_palette' = [null |-> FALSE, str |-> palette]
  /\ palette_given' = palette
  /\ UNCHANGED <<pal_colors_style, pal_output_is_tty, pal_colors_enabled,
                 color_indicator, pal_stderr, pal_diffs, pal_files>>
  /\ UNCHANGED OthersThanPal

\* begin_output for a comparison that has output to write, without -l:
\* outfile = stdout; check_color_output (false).
begin_output ==
  /\ pal_pc \in {"options", "compare"}
  /\ pal_files > 0
  /\ pal_pc' = "output"
  /\ IF pal_colors_style = "NEVER"
     THEN UNCHANGED <<pal_colors_enabled, color_palette, color_indicator, pal_stderr>>
     ELSE LET enabled == pal_colors_style = "ALWAYS"
                           \/ (pal_colors_style = "AUTO" /\ pal_output_is_tty)
              parsed == parse_diff_color(color_palette, color_indicator)
          IN IF enabled
             THEN /\ pal_colors_enabled' = ~parsed.failed
                  /\ color_palette' = parsed.color_palette
                  /\ color_indicator' = parsed.indicator
                  /\ pal_stderr' = pal_stderr \o parsed.errors
             ELSE /\ pal_colors_enabled' = FALSE
                  /\ UNCHANGED <<color_palette, color_indicator, pal_stderr>>
  /\ UNCHANGED <<pal_colors_style, pal_output_is_tty, pal_diffs, pal_files, palette_given>>
  /\ UNCHANGED OthersThanPal

\* The caller of begin_output writes the diff of the two files to outfile.
print_diff ==
  /\ pal_pc = "output"
  /\ pal_pc' = "printed"
  /\ pal_diffs' = Append(pal_diffs, [colored |-> pal_colors_enabled])
  /\ UNCHANGED <<color_palette, pal_colors_style, pal_output_is_tty, pal_colors_enabled,
                 color_indicator, pal_stderr, pal_files, palette_given>>
  /\ UNCHANGED OthersThanPal

\* finish_output: outfile = nullptr, and the run goes on to the next files.
finish_output ==
  /\ pal_pc = "printed"
  /\ pal_pc' = "compare"
  /\ pal_files' = pal_files - 1
  /\ UNCHANGED <<color_palette, pal_colors_style, pal_output_is_tty, pal_colors_enabled,
                 color_indicator, pal_stderr, pal_diffs, palette_given>>
  /\ UNCHANGED OthersThanPal

InitPal ==
  /\ pal_pc = "options"
  /\ color_palette = [null |-> TRUE, str |-> <<>>]
  /\ pal_colors_style \in {"NEVER", "AUTO", "ALWAYS"}
  /\ pal_output_is_tty \in BOOLEAN
  /\ pal_colors_enabled = FALSE
  /\ color_indicator = DefaultIndicators
  /\ pal_stderr = <<>> /\ pal_diffs = <<>>
  /\ pal_files \in 1..MaxFiles
  /\ palette_given = <<>>

NextPal ==
  \/ \E palette \in Palettes : set_color_palette(palette)
  \/ begin_output
  \/ print_diff
  \/ finish_output

InitSpecPal == IdleFunky /\ IdleOut /\ IdleCase /\ IdleMq /\ IdleFatal /\ IdleNl /\ IdleRange /\ IdleLcs /\ IdleHunk /\ IdleScript /\ IdleSig /\ IdleSync /\ InitPal

SpecPal == InitSpecPal /\ [][NextPal]_vars

\* The --palette argument is one that parse_diff_color cannot parse.
Malformed ==
  ParseFrom(palette_given,
            [state |-> "PS_START", p |-> 0, label |-> <<"?", "?">>,
             indicator |-> DefaultIndicators, errors |-> <<>>]).state = "PS_FAIL"

\* Colors are asked for on this output.
ColorsWanted == pal_colors_style = "ALWAYS" \/ (pal_colors_style = "AUTO" /\ pal_output_is_tty)

Unparsable == <<"unparsable value for --palette">>

\* C19 as stated: a malformed --palette is a fatal error at setup, before any
\* comparison begins: no diff is written for any file.
C19_MalformedPaletteIsFatal ==
  Malformed => (pal_pc \notin {"output", "printed"} /\ pal_diffs = <<>>)

\* C19, amended: a malformed --palette is not fatal and is not examined with
\* the options.  The palette is parsed when begin_output opens the first
\* output on which colors are wanted; "unparsable value for --palette" is
\* then reported, once, the diff of that comparison is written without
\* colors, and every comparison's diff is written; a later comparison of
\* the run has colors again.  When no output wants colors the palette is
\* never parsed and nothing is reported.
C19_MalformedPaletteDisablesColors ==
  Malformed =>
    /\ (pal_pc = "compare" /\ pal_diffs = <<>>) => pal_stderr = <<>>
    /\ pal_pc \in {"output", "printed"} =>
         /\ ColorsWanted <=> (\E k \in 1..Len(pal_stderr) : pal_stderr[k] = Unparsable)
         /\ Cardinality({ k \in 1..Len(pal_stderr) : pal_stderr[k] = Unparsable }) <= 1
    /\ ~ColorsWanted => pal_stderr = <<>>
    /\ Len(pal_diffs) >= 1 => ~pal_diffs[1].colored
    /\ \A k \in 2..Len(pal_diffs) : pal_diffs[k].colored <=> ColorsWanted
    /\ pal_pc = "printed" => Len(pal_diffs) >= 1

\* With --color=always and the palette "a", the diff of the one comparison
\* was written, uncolored, after the diagnostic.
C19_Witness ==
  /\ pal_pc = "printed"
  /\ palette_given = <<"a">> /\ Malformed
  /\ pal_colors_style = "ALWAYS"
  /\ pal_stderr = <<Unparsable>>
  /\ pal_diffs = <<[colored |-> FALSE]>>

----------------------------------------------------------------------------
(* util.c: get_funky_string, statement by statement, on a buffer that      *)
(* *dest and *src both point into.  Bytes are their codes; fk_buf holds    *)
(* the string and its terminating NUL, with offsets counted from 0.        *)

MaxFunky == 3        \* longest string handed to get_funky_string, in bytes
MaxLag == 1          \* bytes by which *dest lies before *src at the call

\* The code of a character.
Ord(ch) ==
  CASE ch = ":" -> 58 [] ch = "\\" -> 92 [] ch = "^" -> 94 [] ch = "=" -> 61
    [] ch = "x" -> 120 [] ch = "X" -> 88 [] ch = "0" -> 48 [] ch = "1" -> 49
    [] ch = "7" -> 55 [] ch = "9" -> 57 [] ch = "a" -> 97 [] ch = "f" -> 102
    [] ch = "A" -> 65 [] ch = "F" -> 70 [] ch = "?" -> 63 [] ch = "@" -> 64
    [] ch = "~" -> 126 [] ch = "*" -> 42 [] ch = "b" -> 98 [] ch = "e" -> 101
    [] ch = "n" -> 110 [] ch = "r" -> 114 [] ch = "t" -> 116 [] ch = "v" -> 118
    [] ch = "_" -> 95

\* The bytes the strings are made of: the characters the switches of
\* get_funky_string tell apart, a digit and a letter that is a hex digit, an
\* escape letter and a caret letter at once.
FunkyChars == { Ord(ch) : ch \in {":", "\\", "^", "=", "x", "1", "a", "?"} }

\* *p and *q = v on the buffer.
ByteOf(buf, i) == buf[i + 1]
WriteAt(buf, i, v) == IF i < Len(buf) THEN [buf EXCEPT ![i + 1] = v] ELSE buf

\* The value of num after the switch of ST_BACKSLASH, for the characters
\* that stand for one byte.
EscapeValue(ch) ==
  CASE ch = Ord("a") -> 7 [] ch = Ord("b") -> 8 [] ch = Ord("e") -> 27
    [] ch = Ord("f") -> 12 [] ch = Ord("n") -> 10 [] ch = Ord("r") -> 13
    [] ch = Ord("t") -> 9 [] ch = Ord("v") -> 11 [] ch = Ord("?") -> 127
    [] ch = Ord("_") -> 32 [] OTHER -> ch

\* num is a char: the low eight bits are kept.
AsChar(n) == n % 256

\* case ST_GND
funky_gnd ==
  /\ fk_state = "ST_GND"
  /\ LET ch == ByteOf(fk_buf, fk_p)
     IN IF ch = Ord(":") \/ ch = 0 \/ (ch = Ord("=") /\ fk_call.equals_end)
        THEN fk_state' = "ST_END" /\ UNCHANGED <<fk_buf, fk_p, fk_q>>
        ELSE IF ch = Ord("\\")
        THEN fk_state' = "ST_BACKSLASH" /\ fk_p' = fk_p + 1
             /\ UNCHANGED <<fk_buf, fk_q>>
        ELSE IF ch = Ord("^")
        THEN fk_state' = "ST_CARET" /\ fk_p' = fk_p + 1
             /\ UNCHANGED <<fk_buf, fk_q>>
        ELSE /\ fk_buf' = WriteAt(fk_buf, fk_q, ch)
             /\ fk_q' = fk_q + 1 /\ fk_p' = fk_p + 1
             /\ UNCHANGED fk_state
  /\ UNCHANGED <<fk_num, fk_call>>
  /\ UNCHANGED OthersThanFunky

\* case ST_BACKSLASH
funky_backslash ==
  /\ fk_state = "ST_BACKSLASH"
  /\ LET ch == ByteOf(fk_buf, fk_p)
     IN IF Ord("0") <= ch /\ ch <= Ord("7")
        THEN fk_state' = "ST_OCTAL" /\ fk_num' = ch - Ord("0")
             /\ UNCHANGED <<fk_buf, fk_q>>
        ELSE IF ch = Ord("x") \/ ch = Ord("X")
        THEN fk_state' = "ST_HEX" /\ fk_num' = 0
             /\ UNCHANGED <<fk_buf, fk_q>>
        ELSE IF ch = 0
        THEN fk_state' = "ST_ERROR" /\ UNCHANGED <<fk_num, fk_buf, fk_q>>
        ELSE /\ fk_num' = EscapeValue(ch)
             /\ fk_buf' = WriteAt(fk_buf, fk_q, EscapeValue(ch))
             /\ fk_q' = fk_q + 1
             /\ fk_state' = "ST_GND"
  /\ fk_p' = fk_p + 1
  /\ UNCHANGED fk_call
  /\ UNCHANGED OthersThanFunky

\* case ST_OCTAL
funky_octal ==
  /\ fk_state = "ST_OCTAL"
  /\ LET ch == ByteOf(fk_buf, fk_p)
     IN IF ch < Ord("0") \/ ch > Ord("7")
        THEN /\ fk_buf' = WriteAt(fk_buf, fk_q, fk_num)
             /\ fk_q' = fk_q + 1
             /\ fk_state' = "ST_GND"
             /\ UNCHANGED <<fk_num, fk_p>>
        ELSE /\ fk_num' = AsChar(fk_num * 8 + (ch - Ord("0")))
             /\ fk_p' = fk_p + 1
             /\ UNCHANGED <<fk_buf, fk_q, fk_state>>
  /\ UNCHANGED fk_call
  /\ UNCHANGED OthersThanFunky

\* The value of a hex digit, or -1 for another character.
HexValue(ch) ==
  IF Ord("0") <= ch /\ ch <= Ord("9") THEN ch - Ord("0")
  ELSE IF Ord("a") <= ch /\ ch <= Ord("f") THEN ch - Ord("a") + 10
  ELSE IF Ord("A") <= ch /\ ch <= Ord("F") THEN ch - Ord("A") + 10
  ELSE -1

\* case ST_HEX
funky_hex ==
  /\ fk_state = "ST_HEX"
  /\ LET ch == ByteOf(fk_buf, fk_p)
     IN IF HexValue(ch) >= 0
        THEN /\ fk_num' = AsChar(fk_num * 16 + HexValue(ch))
             /\ fk_p' = fk_p + 1
             /\ UNCHANGED <<fk_buf, fk_q, fk_state>>
        ELSE /\ fk_buf' = WriteAt(fk_buf, fk_q, fk_num)
             /\ fk_q' = fk_q + 1
             /\ fk_state' = "ST_GND"
             /\ UNCHANGED <<fk_num, fk_p>>
  /\ UNCHANGED fk_call
  /\ UNCHANGED OthersThanFunky

\* A variant of the caret escape that keeps the caret and writes two bytes.
funky_caret_keep_caret ==
  /\ fk_state = "ST_CARET"
  /\ LET ch == ByteOf(fk_buf, fk_p)
     IN IF Ord("@") <= ch /\ ch <= Ord("~")
        THEN /\ fk_buf' = WriteAt(WriteAt(fk_buf, fk_q, Ord("^")), fk_q + 1, ch % 32)
             /\ fk_q' = fk_q + 2 /\ fk_p' = fk_p + 1
             /\ fk_state' = "ST_GND"
        ELSE IF ch = Ord("?")
        THEN /\ fk_buf' = WriteAt(WriteAt(fk_buf, fk_q, Ord("^")), fk_q + 1, 127)
             /\ fk_q' = fk_q + 2
             /\ fk_state' = "ST_GND"
             /\ UNCHANGED fk_p
        ELSE fk_state' = "ST_ERROR" /\ UNCHANGED <<fk_buf, fk_q, fk_p>>
  /\ UNCHANGED <<fk_num, fk_call>>
  /\ UNCHANGED OthersThanFunky

\* case ST_CARET: *p & 037 for '@'..'~'; for '?' the byte 127 is written and
\* p is not advanced.
funky_caret ==
  /\ fk_state = "ST_CARET"
  /\ LET ch == ByteOf(fk_buf, fk_p)
     IN IF Ord("@") <= ch /\ ch <= Ord("~")
        THEN /\ fk_buf' = WriteAt(fk_buf, fk_q, ch % 32)
             /\ fk_q' = fk_q + 1 /\ fk_p' = fk_p + 1
             /\ fk_state' = "ST_GND"
        ELSE IF ch = Ord("?")
        THEN /\ fk_buf' = WriteAt(fk_buf, fk_q, 127)
             /\ fk_q' = fk_q + 1
             /\ fk_state' = "ST_GND"
             /\ UNCHANGED fk_p
        ELSE fk_state' = "ST_ERROR" /\ UNCHANGED <<fk_buf, fk_q, fk_p>>
  /\ UNCHANGED <<fk_num, fk_call>>
  /\ UNCHANGED OthersThanFunky

\* *dest = q; *src = p; return state != ST_ERROR;
funky_return ==
  /\ fk_state \in {"ST_END", "ST_ERROR"}
  /\ fk_state' = "returned"
  /\ fk_call' = [fk_call EXCEPT !.dest = fk_q, !.src = fk_p,
                                !.result = IF fk_state = "ST_ERROR"
                                           THEN "false" ELSE "true"]
  /\ UNCHANGED <<fk_buf, fk_p, fk_q, fk_num>>
  /\ UNCHANGED OthersThanFunky

\* get_funky_string is called as parse_diff_color calls it: *dest at the
\* start of the buffer and *src at or after it, the string at *src ending
\* with the NUL of the palette.
InitFunky ==
  \E s \in SeqsUpTo(FunkyChars, MaxFunky), lag \in 0..MaxLag, ee \in BOOLEAN :
    /\ fk_buf = [k \in 1..lag |-> Ord("*")] \o s \o <<0>>
    /\ fk_call = [src0 |-> lag, dest0 |-> 0, src |-> lag, dest |-> 0,
                  equals_end |-> ee,
                  input |-> [k \in 1..lag |-> Ord("*")] \o s \o <<0>>,
                  result |-> "none"]
    /\ fk_state = "ST_GND" /\ fk_p = lag /\ fk_q = 0 /\ fk_num = 0

NextFunky ==
  \/ funky_gnd
  \/ funky_backslash
  \/ funky_octal
  \/ funky_hex
  \/ funky_caret
  \/ funky_return

InitSpecFunky == IdleOut /\ IdleCase /\ IdleMq /\ IdleFatal /\ IdlePal /\ IdleNl /\ IdleRange /\ IdleLcs /\ IdleHunk /\ IdleScript /\ IdleSig /\ IdleSync /\ InitFunky

SpecFunky == InitSpecFunky /\ [][NextFunky]_vars

\* The characters that end a string.
EndsString(ch) ==
  ch = Ord(":") \/ ch = 0 \/ (fk_call.equals_end /\ ch = Ord("="))

\* C32: get_funky_string never writes more bytes than it has consumed: the
\* write pointer never passes the read pointer, every byte not yet read
\* still holds what the input held there, the decoded output is no longer
\* than the input consumed, and on a successful return *src points to the
\* ':', NUL or (with equals_end) '=' that ended the string.
C32_WriteNeverPassesRead ==
  /\ fk_q <= fk_p
  /\ \A i \in fk_p..(Len(fk_buf) - 1) :
       ByteOf(fk_buf, i) = ByteOf(fk_call.input, i)
  /\ fk_q - fk_call.dest0 <= fk_p - fk_call.src0
  /\ fk_call.result = "true" =>
       /\ fk_call.src = fk_p /\ fk_call.dest = fk_q
       /\ fk_p < Len(fk_buf)
       /\ EndsString(ByteOf(fk_buf, fk_call.src))

\* A string decoded in place (*dest = *src at the call) with an escape in
\* it: the call succeeded at a ':', having written fewer bytes than it read
\* over bytes it had read before.
C32_Witness ==
  /\ fk_state = "returned" /\ fk_call.result = "true"
  /\ fk_call.dest0 = fk_call.src0
  /\ fk_call.dest0 < fk_q /\ fk_q < fk_p
  /\ ByteOf(fk_buf, fk_p) = Ord(":")
  /\ fk_buf # fk_call.input

----------------------------------------------------------------------------
(* util.c: perror_with_name, pfatal_with_name and fatal, with the message  *)
(* queue of message and print_message_queue above.  print_message_queue    *)
(* frees every struct msg and leaves msg_chain pointing at the first one:  *)
(* a second walk of the chain reads freed memory, which is undefined; it   *)
(* either finds the messages still there and prints them again, or the     *)
(* process dies of the bad access.                                         *)

MaxReports == 2      \* reports of perror_with_name in one run

Errnos == {"ENOENT", "EPIPE"}
Names == {"f", "standard output"}

\* squote (0, name)
squote(name) == <<"'", name, "'">>

\* The messages in the queue that are queued and not yet printed.
Queued == SelectSeq(msg_chain, LAMBDA m_ : ~m_.freed)

\* perror_with_name: error (0, errno, "%s", squote (0, name)) and return.
perror_with_name(name) ==
  /\ Runs /\ pc = "caller"
  /\ Len(err_stderr) < MaxReports
  /\ at_entry' = [fn |-> "perror_with_name", name |-> name, errno |-> errno,
                  queued |-> QueueOutput(Queued), printed |-> msgs_printed]
  /\ err_stderr' = Append(err_stderr, [errnum |-> errno, text |-> squote(name)])
  /\ UNCHANGED <<errno, exit_status>>
  /\ UNCHANGED sigVars
  /\ UNCHANGED OthersThanSigFatal

\* print_message_queue (); error (EXIT_TROUBLE, e, "%s", text), as fatal and
\* pfatal_with_name do them.  printf may set errno.
PrintQueueAndExit(e, text) ==
  \/ /\ msgs_printed' = msgs_printed \o QueueOutput(msg_chain)
     /\ msg_chain' = QueueFreed(msg_chain)
     /\ errno' \in (IF msg_chain = <<>> THEN {errno} ELSE Errnos)
     /\ err_stderr' = Append(err_stderr, [errnum |-> e, text |-> text])
     /\ exit_status' = "EXIT_TROUBLE"
     /\ proc' = "exited"
  \/ /\ \E k \in 1..Len(msg_chain) : msg_chain[k].freed
     /\ proc' = "killed"
     /\ UNCHANGED <<msgs_printed, msg_chain, errno, err_stderr, exit_status>>

\* pfatal_with_name: int e = errno; print_message_queue ();
\* error (EXIT_TROUBLE, e, "%s", name).
pfatal_with_name(name) ==
  /\ Runs /\ pc = "caller"
  /\ at_entry' = [fn |-> "pfatal_with_name", name |-> name, errno |-> errno,
                  queued |-> QueueOutput(Queued), printed |-> msgs_printed]
  /\ PrintQueueAndExit(errno, name)
  /\ UNCHANGED <<ctlVars, flagVars, handler, sigmask, sigpending, catchVars,
                 localVars, colorVars, paginate, lineVars, histVars>>
  /\ UNCHANGED OthersThanSigFatal

\* fatal: print_message_queue (); error (EXIT_TROUBLE, 0, "%s", _(msgid)).
fatal(msgid) ==
  /\ Runs /\ pc = "caller"
  /\ at_entry' = [fn |-> "fatal", name |-> msgid, errno |-> errno,
                  queued |-> QueueOutput(Queued), printed |-> msgs_printed]
  /\ PrintQueueAndExit("0", msgid)
  /\ UNCHANGED <<ctlVars, flagVars, handler, sigmask, sigpending, catchVars,
                 localVars, colorVars, paginate, lineVars, histVars>>
  /\ UNCHANGED OthersThanSigFatal

\* A system call fails and sets errno.
SetErrno ==
  /\ Runs /\ pc = "caller"
  /\ \E e \in Errnos \ {errno} : errno' = e
  /\ UNCHANGED <<err_stderr, exit_status, at_entry>>
  /\ UNCHANGED sigVars
  /\ UNCHANGED OthersThanSigFatal

\* The program between two output routines, with or without -l; no signal
\* is caught and none arrives.
InitFatal ==
  /\ pc = "caller" /\ frames = <<>> /\ color_context = RESET_CONTEXT
  /\ interrupt_signal = NoSignal /\ stop_signal_count = 0
  /\ caught_signals = {} /\ some_signals_caught = FALSE
  /\ handler = [s \in Signals |-> "SIG_DFL"]
  /\ sigmask = {} /\ sigpending = {} /\ proc = "running"
  /\ oldset = {} /\ stops = 0 /\ sig = NoSignal
  /\ colors_enabled = FALSE /\ last_context = RESET_CONTEXT
  /\ out_seq = <<>> /\ out_color = RESET_CONTEXT
  /\ paginate \in BOOLEAN /\ msg_chain = <<>> /\ msgs_printed = <<>>
  /\ expand_tabs = FALSE /\ tabsize = 1
  /\ left = 0 /\ t_char = "limit"
  /\ t_rest = 0 /\ flag_format = FALSE /\ counter_proc_signals = 0
  /\ column = 0 /\ tab = 0 /\ written = 0 /\ to_write = 0
  /\ since_poll = NoPoll
  /\ steps = <<>> /\ recorded = <<>> /\ raised = NoSignal
  /\ deliveries = 0 /\ handled = 0
  /\ errno \in Errnos /\ err_stderr = <<>> /\ exit_status = "none"
  /\ at_entry = <<>>

NextFatal ==
  \/ message
  \/ print_message_queue
  \/ SetErrno
  \/ \E name \in Names : perror_with_name(name)
  \/ \E name \in Names : pfatal_with_name(name)
  \/ fatal("write failed")

InitSpecFatal == IdleFunky /\ IdleOut /\ IdleCase /\ IdleMq /\ IdlePal /\ IdleNl /\ IdleRange /\ IdleLcs /\ IdleHunk /\ IdleScript /\ IdleSync /\ InitFatal

SpecFatal == InitSpecFatal /\ [][NextFatal]_vars

\* What C20 promises of the state that fatal or pfatal_with_name leaves:
\* the messages queued on entry printed once after what was printed before,
\* then the report, then the exit.
FatalPost ==
  /\ msgs_printed = at_entry.printed \o at_entry.queued
  /\ err_stderr # <<>>
  /\ err_stderr[Len(err_stderr)] =
       [errnum |-> IF at_entry.fn = "fatal" THEN "0" ELSE at_entry.errno,
        text |-> at_entry.name]
  /\ proc = "exited" /\ exit_status = "EXIT_TROUBLE"

\* What C20 promises of the state that perror_with_name leaves.
PerrorPost ==
  /\ proc = "running" /\ pc = "caller" /\ exit_status = "none"
  /\ msgs_printed = at_entry.printed
  /\ err_stderr # <<>>
  /\ err_stderr[Len(err_stderr)] =
       [errnum |-> at_entry.errno, text |-> squote(at_entry.name)]

\* C20: fatal and pfatal_with_name first print every queued message, then
\* report the error (pfatal_with_name with the errno found on entry, whatever
\* the printing did to errno, and with the given name), then exit with
\* EXIT_TROUBLE and never return; perror_with_name reports and returns, and
\* prints nothing of the queue.
C20_FatalPrintsQueueReportsExits ==
  [][ /\ ((\E name \in Names : pfatal_with_name(name)) \/ fatal("write failed"))
           => FatalPost'
      /\ (\E name \in Names : perror_with_name(name)) => PerrorPost' ]_vars

\* The same with a queue that was not printed before the call: the case in
\* which the code keeps the promise.
C20_FreshQueue ==
  [][ /\ (/\ (\E name \in Names : pfatal_with_name(name)) \/ fatal("write failed")
          /\ \A k \in 1..Len(msg_chain) : ~msg_chain[k].freed)
           => FatalPost'
      /\ (\E name \in Names : perror_with_name(name)) => PerrorPost' ]_vars

----------------------------------------------------------------------------
(***************************************************************************)
(* util.c: message and print_message_queue, with the format and the        *)
(* arguments.  The arguments of message are pointers into buffers of the   *)
(* caller, which the caller overwrites between the calls.                  *)
(***************************************************************************)

MaxCalls == 2        \* calls of message in one run

Buffers == {"b0", "b1"}
BufferText == {<<>>, <<"a">>, <<"b">>}

\* The formats: the bytes that matter are % and what follows it.
Formats == { <<"x">>, <<"%", "s", "x">>, <<"%", "%", "%", "s">>,
             <<"%", "s", "%", "s">> }

\* The loop of message over the format: a % that is followed by % is
\* skipped with it, every other % takes one argument.
RECURSIVE Directives(_, _)
Directives(format, m_) ==
  IF m_ > Len(format) THEN 0
  ELSE IF format[m_] = "%"
       THEN IF m_ < Len(format) /\ format[m_ + 1] = "%"
            THEN Directives(format, m_ + 2)
            ELSE 1 + Directives(format, m_ + 1)
       ELSE Directives(format, m_ + 1)

\* p = stpcpy (p, va_arg (ap, char const *)) + 1, for every argument: the
\* strings, each with its terminating null byte, one after the other.
RECURSIVE CopyArgs(_, _)
CopyArgs(ptrs, buf) ==
  IF ptrs = <<>> THEN <<>>
  ELSE buf[Head(ptrs)] \o <<"NUL">> \o CopyArgs(Tail(ptrs), buf)

\* The string that starts at p in args; strlen of it.
RECURSIVE StrAt(_, _)
StrAt(args, p) ==
  IF p > Len(args) \/ args[p] = "NUL" THEN <<>>
  ELSE <<args[p]>> \o StrAt(args, p + 1)

\* arg0 .. arg3 of print_message_queue: p += p < plim ? strlen (p) + 1 : 0.
RECURSIVE ArgsFrom(_, _, _)
ArgsFrom(args, p, n) ==
  IF n = 0 THEN <<>>
  ELSE IF p <= Len(args)
       THEN <<StrAt(args, p)>> \o ArgsFrom(args, p + Len(StrAt(args, p)) + 1, n - 1)
       ELSE <<"plim">> \o ArgsFrom(args, p, n - 1)

\* printf (format, arg0, arg1, arg2, arg3): what is written.
RECURSIVE Printf(_, _, _, _)
Printf(format, m_, argv, a) ==
  IF m_ > Len(format) THEN <<>>
  ELSE IF format[m_] = "%" /\ m_ < Len(format)
       THEN IF format[m_ + 1] = "%"
            THEN <<"%">> \o Printf(format, m_ + 2, argv, a)
            ELSE argv[a] \o Printf(format, m_ + 2, argv, a + 1)
       ELSE <<format[m_]>> \o Printf(format, m_ + 1, argv, a)

\* *msg_chain_end = new; new->next = nullptr; msg_chain_end = &new->next.
Enqueue_at_head(chain_, new) == <<new>> \o chain_
Enqueue(chain_, new) == Append(chain_, new)

\* message (format_msgid, ...), with the arguments pointing at ptrs.
call_message(format, ptrs) ==
  /\ mq_pc = "run"
  /\ Len(mq_calls) < MaxCalls
  /\ mq_calls' = Append(mq_calls, [format |-> format,
                                   argv |-> [k \in 1..Len(ptrs) |-> arg_buf[ptrs[k]]]])
  /\ IF mq_paginate
     THEN /\ mq_chain' = Enqueue(mq_chain,
                [msgid |-> format,
                 argbytes |-> Len(CopyArgs(ptrs, arg_buf)),
                 args |-> CopyArgs(ptrs, arg_buf)])
          /\ UNCHANGED mq_stdout
     ELSE /\ mq_stdout' = mq_stdout
               \o (IF sdiff_merge_assist THEN << <<" ">> >> ELSE <<>>)
               \o << Printf(format, 1, [k \in 1..Len(ptrs) |-> arg_buf[ptrs[k]]], 1) >>
          /\ UNCHANGED mq_chain
  /\ UNCHANGED <<mq_pc, mq_paginate, sdiff_merge_assist, arg_buf>>
  /\ UNCHANGED OthersThanMq

\* The caller reuses a buffer for something else.
OverwriteBuffer ==
  /\ mq_pc = "run"
  /\ \E b \in Buffers :
       \E t \in BufferText \ {arg_buf[b]} : arg_buf' = [arg_buf EXCEPT ![b] = t]
  /\ UNCHANGED <<mq_pc, mq_paginate, sdiff_merge_assist, mq_chain, mq_stdout, mq_calls>>
  /\ UNCHANGED OthersThanMq

\* print_message_queue, called once when the comparisons are done.
call_print_message_queue ==
  /\ mq_pc = "run"
  /\ mq_stdout' = mq_stdout \o
       [k \in 1..Len(mq_chain) |->
          Printf(mq_chain[k].msgid, 1, ArgsFrom(mq_chain[k].args, 1, 4), 1)]
  /\ mq_pc' = "printed"
  /\ UNCHANGED <<mq_paginate, sdiff_merge_assist, mq_chain, arg_buf, mq_calls>>
  /\ UNCHANGED OthersThanMq

InitMq ==
  /\ mq_pc = "run"
  /\ mq_paginate \in BOOLEAN /\ sdiff_merge_assist \in BOOLEAN
  /\ mq_chain = <<>> /\ mq_stdout = <<>> /\ mq_calls = <<>>
  /\ arg_buf \in [Buffers -> BufferText]

NextMq ==
  \/ \E format \in Formats :
       \E ptrs \in [1..Directives(format, 1) -> Buffers] : call_message(format, ptrs)
  \/ OverwriteBuffer
  \/ call_print_message_queue

InitSpecMq == IdleFunky /\ IdleOut /\ IdleCase /\ IdleFatal /\ IdlePal /\ IdleNl /\ IdleRange /\ IdleLcs /\ IdleHunk /\ IdleScript /\ IdleSig /\ IdleSync /\ InitMq

SpecMq == InitSpecMq /\ [][NextMq]_vars

\* What the call k of message has to write: the format with the arguments
\* as they were when message was called.
Expected(k) == Printf(mq_calls[k].format, 1, mq_calls[k].argv, 1)

\* C21: under -l message writes nothing and queues the message with copies
\* of its arguments, and print_message_queue writes the queued messages in
\* the order of the calls, each with the arguments it was called with;
\* without -l message writes at once and the queue stays as it was (empty).
C21_QueuedThenPrintedInOrder ==
  /\ mq_pc \in {"run", "printed"} /\ mq_paginate =>
       /\ Len(mq_chain) = Len(mq_calls)
       /\ \A k \in 1..Len(mq_chain) :
            /\ mq_chain[k].msgid = mq_calls[k].format
            /\ mq_chain[k].argbytes = Len(mq_chain[k].args)
       /\ mq_pc = "run" => mq_stdout = <<>>
       /\ mq_pc = "printed" => mq_stdout = [k \in 1..Len(mq_calls) |-> Expected(k)]
  /\ mq_pc \in {"run", "printed"} /\ ~mq_paginate =>
       /\ mq_chain = <<>>
       /\ SelectSeq(mq_stdout, LAMBDA w : w # <<" ">>) =
            [k \in 1..Len(mq_calls) |-> Expected(k)]

\* Two messages were queued, the buffer the first one pointed at was
\* overwritten before the queue was printed, and the queue has been printed.
C21_Witness ==
  /\ mq_pc = "printed" /\ mq_paginate
  /\ Len(mq_calls) = 2
  /\ mq_calls[1].format = <<"%", "s", "%", "s">>
  /\ mq_calls[1].argv = << <<"a">>, <<>> >>
  /\ mq_calls[2].argv = << <<"b">> >>
  /\ arg_buf = [b \in Buffers |-> <<>>]

----------------------------------------------------------------------------
(***************************************************************************)
(* 4.1 Reading and classifying the lines under ignore-case.  The reader    *)
(* (io.c) is not part of src/; it is modelled from the specification: each *)
(* line gets an equivalence class that is consistent across both inputs,   *)
(* and under ignore-case two lines are in the same class when they are    *)
(* equal after case folding.  The locale decides which characters are      *)
(* letters: in the C locale only the ASCII ones.                           *)
(***************************************************************************)

MaxLetters == 2      \* longest line, in characters

AsciiUpper == {"F"}
AsciiLower == {"f"}
WideUpper == {"DELTA"}
WideLower == {"delta"}
CaseChars == AsciiUpper \cup AsciiLower \cup WideUpper \cup WideLower \cup {"-"}

\* tolower and towlower.
tolower(ch) == IF ch = "F" THEN "f" ELSE ch
towlower(ch) == IF ch = "DELTA" THEN "delta" ELSE tolower(ch)

\* A mutation: the folding of a line looks at single bytes in every locale.
FoldCase_bytes(line, utf8) == [k \in 1..Len(line) |-> tolower(line[k])]

\* The line as the comparison sees it under -i.
FoldCase(line, utf8) ==
  [k \in 1..Len(line) |-> IF utf8 THEN towlower(line[k]) ELSE tolower(line[k])]

\* Whether two lines are the same line for the comparison.
lines_equal(a, b, ic, utf8) ==
  IF ic THEN FoldCase(a, utf8) = FoldCase(b, utf8) ELSE a = b

\* The class of line k of the lines of both inputs taken together: the
\* number of the first line it is equal to.
EquivClass(all, k, ic, utf8) ==
  CHOOSE c \in 1..k :
    /\ lines_equal(all[c], all[k], ic, utf8)
    /\ \A d \in 1..(c - 1) : ~lines_equal(all[d], all[k], ic, utf8)

\* The inputs: at most one line each.
CaseLines == SeqsUpTo(CaseChars, MaxLetters)
CaseFiles == {<<>>} \cup { <<l>> : l \in CaseLines }

\* read_files: every line of both inputs gets its class.
read_files ==
  /\ case_pc = "read"
  /\ LET all == raw_files[1] \o raw_files[2]
         n0 == Len(raw_files[1])
     IN equivs' = << [k \in 1..n0 |-> EquivClass(all, k, ignore_case, utf8_locale)],
                     [k \in 1..Len(raw_files[2]) |->
                        EquivClass(all, n0 + k, ignore_case, utf8_locale)] >>
  /\ case_pc' = "classified"
  /\ UNCHANGED <<ignore_case, utf8_locale, raw_files, case_script, case_out, case_status>>
  /\ UNCHANGED OthersThanCase

\* diff_2_files: the engine runs on the classes.
case_diff_2_files ==
  /\ case_pc = "classified"
  /\ LET r == compareseq(equivs[1], equivs[2])
     IN case_script' = build_script(r.c0, r.c1)
  /\ case_pc' = "compared"
  /\ UNCHANGED <<ignore_case, utf8_locale, raw_files, equivs, case_out, case_status>>
  /\ UNCHANGED OthersThanCase

\* The script is printed, one hunk per Change with the raw lines, and the
\* program exits with 0 if there was no Change and with 1 otherwise.
case_print_and_exit ==
  /\ case_pc = "compared"
  /\ case_out' = [k \in 1..Len(case_script) |->
        [deleted |-> Lines(raw_files[1], case_script[k].line0 + 1,
                           case_script[k].line0 + case_script[k].deleted),
         inserted |-> Lines(raw_files[2], case_script[k].line1 + 1,
                            case_script[k].line1 + case_script[k].inserted)]]
  /\ case_status' = IF case_script = <<>> THEN "EXIT_SUCCESS" ELSE "EXIT_FAILURE"
  /\ case_pc' = "exited"
  /\ UNCHANGED <<ignore_case, utf8_locale, raw_files, equivs, case_script>>
  /\ UNCHANGED OthersThanCase

InitCase ==
  /\ case_pc = "read"
  /\ ignore_case \in BOOLEAN /\ utf8_locale \in BOOLEAN
  /\ raw_files \in CaseFiles \X CaseFiles
  /\ equivs = <<>> /\ case_script = <<>> /\ case_out = <<>>
  /\ case_status = "none"

NextCase ==
  \/ read_files
  \/ case_diff_2_files
  \/ case_print_and_exit

InitSpecCase == IdleFunky /\ IdleOut /\ IdleMq /\ IdleFatal /\ IdlePal /\ IdleNl /\ IdleRange /\ IdleLcs /\ IdleHunk /\ IdleScript /\ IdleSig /\ IdleSync /\ InitCase

SpecCase == InitSpecCase /\ [][NextCase]_vars

\* The characters a and b are the same, or the two cases of one letter:
\* an ASCII letter, or any letter when the locale is a UTF-8 locale.
SameLetter(a, b, utf8) ==
  \/ a = b
  \/ {a, b} = {"F", "f"}
  \/ utf8 /\ {a, b} = {"DELTA", "delta"}

\* The two inputs have the same lines up to the case of the letters.
DifferOnlyInCase ==
  /\ Len(raw_files[1]) = Len(raw_files[2])
  /\ \A k \in 1..Len(raw_files[1]) :
       /\ Len(raw_files[1][k]) = Len(raw_files[2][k])
       /\ \A i \in 1..Len(raw_files[1][k]) :
            SameLetter(raw_files[1][k][i], raw_files[2][k][i], utf8_locale)

\* C23: under -i, inputs whose lines differ only in the case of letters
\* (ASCII letters, and other letters in a UTF-8 locale) get the same
\* equivalence classes, nothing is written and the exit status is 0.
C23_IgnoreCaseIdentical ==
  (ignore_case /\ case_pc # "off" /\ DifferOnlyInCase) =>
     /\ case_pc \in {"classified", "compared", "exited"} => equivs[1] = equivs[2]
     /\ case_pc \in {"compared", "exited"} => case_script = <<>>
     /\ case_pc = "exited" => case_out = <<>> /\ case_status = "EXIT_SUCCESS"

\* Under -i in a UTF-8 locale two lines that differ in the case of an ASCII
\* and of a non-ASCII letter were compared and found identical.
C23_Witness ==
  /\ case_pc = "exited" /\ ignore_case /\ utf8_locale
  /\ raw_files = << << <<"F", "DELTA">> >>, << <<"f", "delta">> >> >>
  /\ case_out = <<>> /\ case_status = "EXIT_SUCCESS"

----------------------------------------------------------------------------
(***************************************************************************)
(* util.c: setup_output, begin_output and finish_output.  The main program *)
(* calls setup_output for every comparison, the output routines call       *)
(* begin_output before they write, and finish_output ends the comparison.  *)
(* Under -l the output goes through a pipe to a pr process, which runs on  *)
(* its own and ends when it likes.                                         *)
(***************************************************************************)

MaxComparisons == 2  \* comparisons in one run
MaxBegins == 2       \* calls of begin_output in one comparison
MaxOutLines == 1     \* lines written in one comparison

INT_MAX == 2147483647

\* What waitpid or pclose reports of the pr process: it exited with a
\* status, or a signal ended it.
WaitStatuses ==
  { [state |-> "ended", exited |-> TRUE, status |-> n] : n \in {0, 1, 126, 127} }
    \cup { [state |-> "ended", exited |-> FALSE, status |-> 0] }

\* The headers begin_output prints itself: the command line under -r when
\* the output is stdout (under -l it is handed to pr as the page header),
\* and the header of context and unified output.
DueHeaders ==
  (IF ~o_paginate /\ currently_recursive THEN <<"diff name0 name1">> ELSE <<>>)
    \o (IF output_style \in {"OUTPUT_CONTEXT", "OUTPUT_UNIFIED"}
        THEN <<"context header">> ELSE <<>>)

\* error (EXIT_TROUBLE, errnum, text): the report and the exit.
ErrorExit(fn, errnum, text) ==
  /\ o_stderr' = Append(o_stderr, [errnum |-> errnum, text |-> text])
  /\ o_status' = "EXIT_TROUBLE"
  /\ o_pc' = "exited"
  /\ o_last' = fn

\* setup_output: outfile = nullptr.
call_setup_output ==
  /\ o_pc = "compare"
  /\ comparisons < MaxComparisons
  /\ comparisons' = comparisons + 1
  /\ \E r \in BOOLEAN : currently_recursive' = r
  /\ outfile' = "nullptr"
  /\ o_pc' = "diff"
  /\ o_last' = "setup_output"
  /\ pr_started' = 0 /\ o_headers' = <<>> /\ o_lines' = 0 /\ begins' = 0
  /\ UNCHANGED <<o_paginate, have_working_fork, output_style, pr, pipe_open,
                 ferr, o_stderr, o_status>>
  /\ UNCHANGED OthersThanOut

\* A mutation of begin_output: it does not look at outfile.
begin_output_again(ok) ==
  /\ o_pc = "diff"
  /\ begins < MaxBegins
  /\ begins' = begins + 1
  /\ IF o_paginate
     THEN IF ok
          THEN /\ outfile' = "pipe"
               /\ pr' = [state |-> "running", exited |-> FALSE, status |-> 0] /\ pr_started' = pr_started + 1
               /\ pipe_open' = TRUE /\ ferr' = FALSE
               /\ o_headers' = o_headers \o DueHeaders
               /\ o_last' = "begin_output"
               /\ UNCHANGED <<o_pc, o_stderr, o_status>>
          ELSE /\ \E e \in Errnos : ErrorExit("begin_output", e, <<"pipe">>)
               /\ UNCHANGED <<outfile, pr, pr_started, pipe_open, ferr, o_headers>>
     ELSE /\ outfile' = "stdout"
          /\ o_headers' = o_headers \o DueHeaders
          /\ o_last' = "begin_output"
          /\ UNCHANGED <<o_pc, pr, pr_started, pipe_open, ferr, o_stderr, o_status>>
  /\ UNCHANGED <<o_paginate, have_working_fork, currently_recursive,
                 output_style, o_lines, comparisons>>
  /\ UNCHANGED OthersThanOut

\* begin_output.  ok: fflush, pipe, fork and fdopen, or popen, succeed.
call_begin_output(ok) ==
  /\ o_pc = "diff"
  /\ begins < MaxBegins
  /\ begins' = begins + 1
  /\ IF outfile # "nullptr"
     THEN /\ o_last' = "begin_output"
          /\ UNCHANGED <<o_pc, outfile, pr, pr_started, pipe_open, ferr,
                         o_headers, o_stderr, o_status>>
     ELSE IF o_paginate
          THEN IF ok
               THEN /\ outfile' = "pipe"
                    /\ pr' = [state |-> "running", exited |-> FALSE, status |-> 0] /\ pr_started' = pr_started + 1
                    /\ pipe_open' = TRUE /\ ferr' = FALSE
                    /\ o_headers' = o_headers \o DueHeaders
                    /\ o_last' = "begin_output"
                    /\ UNCHANGED <<o_pc, o_stderr, o_status>>
               ELSE /\ \E e \in Errnos : ErrorExit("begin_output", e, <<"pipe">>)
                    /\ UNCHANGED <<outfile, pr, pr_started, pipe_open, ferr, o_headers>>
          ELSE /\ outfile' = "stdout"
               /\ o_headers' = o_headers \o DueHeaders
               /\ o_last' = "begin_output"
               /\ UNCHANGED <<o_pc, pr, pr_started, pipe_open, ferr, o_stderr, o_status>>
  /\ UNCHANGED <<o_paginate, have_working_fork, currently_recursive,
                 output_style, o_lines, comparisons>>
  /\ UNCHANGED OthersThanOut

\* An output routine writes a line to outfile; a write to the pipe may fail.
write_outfile(ok) ==
  /\ o_pc = "diff"
  /\ outfile # "nullptr"
  /\ o_lines < MaxOutLines
  /\ o_lines' = o_lines + 1
  /\ ferr' = (ferr \/ (outfile = "pipe" /\ ~ok))
  /\ o_last' = "write"
  /\ UNCHANGED <<o_pc, outfile, o_paginate, have_working_fork, currently_recursive,
                 output_style, pr, pr_started, pipe_open, o_headers, o_stderr,
                 o_status, begins, comparisons>>
  /\ UNCHANGED OthersThanOut

\* The pr process ends.
pr_exits(w) ==
  /\ o_pc \in {"diff", "waitpid"}
  /\ pr.state = "running"
  /\ pr' = w
  /\ UNCHANGED <<o_pc, o_last, outfile, o_paginate, have_working_fork,
                 currently_recursive, output_style, pr_started, pipe_open, ferr,
                 o_headers, o_lines, o_stderr, o_status, begins, comparisons>>
  /\ UNCHANGED OthersThanOut

\* finish_output up to the wait: nothing but outfile = nullptr unless the
\* output is a pipe; ferror is fatal; fclose, or the close of pclose.
call_finish_output(ok) ==
  /\ o_pc = "diff"
  /\ IF outfile = "pipe"
     THEN IF ferr
          THEN /\ ErrorExit("finish_output", "0", <<"write failed">>)
               /\ UNCHANGED <<outfile, pipe_open>>
          ELSE IF have_working_fork /\ ~ok
               THEN /\ \E e \in Errnos : ErrorExit("finish_output", e, <<"write failed">>)
                    /\ pipe_open' = FALSE
                    /\ UNCHANGED outfile
               ELSE /\ pipe_open' = FALSE
                    /\ o_pc' = "waitpid"
                    /\ o_last' = "fclose"
                    /\ UNCHANGED <<outfile, o_stderr, o_status>>
     ELSE /\ outfile' = "nullptr"
          /\ o_pc' = "compare"
          /\ o_last' = "finish_output"
          /\ UNCHANGED <<pipe_open, o_stderr, o_status>>
  /\ UNCHANGED <<o_paginate, have_working_fork, currently_recursive, output_style,
                 pr, pr_started, ferr, o_headers, o_lines, begins, comparisons>>
  /\ UNCHANGED OthersThanOut

\* status == 126 ? ... : status == 127 ? ... : status == INT_MAX ? ... : ...
SubsidiaryMessage(status) ==
  IF status = 126 THEN <<"subsidiary program could not be invoked">>
  ELSE IF status = 127 THEN <<"subsidiary program not found">>
  ELSE IF status = INT_MAX THEN <<"subsidiary program failed">>
  ELSE <<"subsidiary program failed (exit status", status, ")">>

\* The rest of finish_output once waitpid, or the wait of pclose, is over.
FinishAfterWait(ok) ==
  IF have_working_fork /\ ~ok
  THEN /\ \E e \in Errnos : ErrorExit("finish_output", e, <<"waitpid">>)
       /\ UNCHANGED outfile
  ELSE \E werrno \in (IF ok THEN {"0"} ELSE Errnos) :
         LET status == IF werrno = "0" /\ pr.exited THEN pr.status ELSE INT_MAX
         IN IF status # 0
            THEN /\ ErrorExit("finish_output", werrno, SubsidiaryMessage(status))
                 /\ UNCHANGED outfile
            ELSE /\ outfile' = "nullptr"
                 /\ o_pc' = "compare"
                 /\ o_last' = "finish_output"
                 /\ UNCHANGED <<o_stderr, o_status>>

\* A mutation: finish_output does not wait for pr and takes its status for 0.
finish_output_nohang(ok) ==
  /\ o_pc = "waitpid"
  /\ outfile' = "nullptr"
  /\ o_pc' = "compare"
  /\ o_last' = "finish_output"
  /\ UNCHANGED <<o_stderr, o_status>>
  /\ UNCHANGED <<o_paginate, have_working_fork, currently_recursive, output_style,
                 pr, pr_started, pipe_open, ferr, o_headers, o_lines, begins,
                 comparisons>>
  /\ UNCHANGED OthersThanOut

\* waitpid (pr_pid, &wstatus, 0), or the wait inside pclose, returns only
\* when pr has ended.  ok: the call succeeds.
finish_output_wait(ok) ==
  /\ o_pc = "waitpid"
  /\ pr.state # "running"
  /\ FinishAfterWait(ok)
  /\ UNCHANGED <<o_paginate, have_working_fork, currently_recursive, output_style,
                 pr, pr_started, pipe_open, ferr, o_headers, o_lines, begins,
                 comparisons>>
  /\ UNCHANGED OthersThanOut

InitOut ==
  /\ o_pc = "compare" /\ o_last = "none"
  /\ outfile = "nullptr"
  /\ o_paginate \in BOOLEAN /\ have_working_fork \in BOOLEAN
  /\ currently_recursive = FALSE
  /\ output_style \in {"OUTPUT_NORMAL", "OUTPUT_UNIFIED"}
  /\ pr = [state |-> "none", exited |-> FALSE, status |-> 0] /\ pr_started = 0 /\ pipe_open = FALSE /\ ferr = FALSE
  /\ o_headers = <<>> /\ o_lines = 0 /\ o_stderr = <<>> /\ o_status = "none"
  /\ begins = 0 /\ comparisons = 0

NextOut ==
  \/ call_setup_output
  \/ \E ok \in BOOLEAN : call_begin_output(ok)
  \/ \E ok \in BOOLEAN : write_outfile(ok)
  \/ \E w \in WaitStatuses : pr_exits(w)
  \/ \E ok \in BOOLEAN : call_finish_output(ok)
  \/ \E ok \in BOOLEAN : finish_output_wait(ok)

InitSpecOut == IdleFunky /\ IdleCase /\ IdleMq /\ IdleFatal /\ IdlePal /\ IdleNl /\ IdleRange /\ IdleLcs /\ IdleHunk /\ IdleScript /\ IdleSig /\ IdleSync /\ InitOut

SpecOut == InitSpecOut /\ [][NextOut]_vars

\* begin_output was called in this step.
BeginOutputStep == begins' = begins + 1

\* C27: per comparison the output is set up at most once.  After
\* setup_output outfile is null; the begin_output that finds it null opens
\* it, as stdout or under -l as a pipe to one newly started pr, and prints
\* the headers; a begin_output that finds it open changes nothing; when
\* finish_output has returned outfile is null, so the next comparison
\* starts closed.
C27_OutputSetUpOncePerComparison ==
  /\ [](o_pc # "off" =>
          /\ o_last = "setup_output" => outfile = "nullptr"
          /\ o_pc = "compare" => outfile = "nullptr"
          /\ pr_started <= 1
          /\ outfile # "nullptr" =>
               /\ outfile = IF o_paginate THEN "pipe" ELSE "stdout"
               /\ o_headers = DueHeaders
               /\ o_paginate => pr_started = 1)
  /\ [][BeginOutputStep =>
          IF outfile # "nullptr"
          THEN UNCHANGED <<o_pc, outfile, pr, pr_started, pipe_open, ferr,
                           o_headers, o_lines, o_stderr, o_status>>
          ELSE \/ o_pc' = "exited" /\ o_status' = "EXIT_TROUBLE"
               \/ /\ outfile' # "nullptr"
                  /\ o_headers' = DueHeaders
                  /\ o_paginate => pr'.state = "running" /\ pipe_open'
                                   /\ pr_started' = 1]_vars

\* In the second comparison of a run under -l with unified output
\* begin_output was called twice: one pr was started and the header was
\* printed once.
C27_Witness ==
  /\ comparisons = 2 /\ o_paginate /\ output_style = "OUTPUT_UNIFIED"
  /\ begins = 2 /\ o_last = "begin_output"
  /\ outfile = "pipe" /\ pr_started = 1 /\ pr.state = "running"
  /\ o_headers = <<"context header">>

\* The last report on stderr.
LastReport == o_stderr[Len(o_stderr)]

\* What C28 says finish_output reports of a pr that has ended.
ReportOfPr ==
  IF ~pr.exited THEN <<"subsidiary program failed">>
  ELSE IF pr.status = 126 THEN <<"subsidiary program could not be invoked">>
  ELSE IF pr.status = 127 THEN <<"subsidiary program not found">>
  ELSE <<"subsidiary program failed (exit status", pr.status, ")">>

\* finish_output leaves its first part in this step.
FinishOutputStep == o_pc = "diff" /\ o_pc' # "diff" /\ ~BeginOutputStep

\* C28: when the output is a pipe to pr, finish_output closes the pipe and
\* returns only when pr has ended, and then only if pr exited with status
\* 0; otherwise it exits with EXIT_TROUBLE, reporting 126 as could not be
\* invoked, 127 as not found, an abnormal end as failed and another status
\* as failed (exit status N); a write error on the pipe is fatal.  When the
\* output is stdout it closes nothing and waits for nothing.
C28_FinishOutputWaitsForPr ==
  /\ [](/\ o_pc = "waitpid" => ~pipe_open
        /\ (o_last = "finish_output" /\ o_pc = "compare" /\ pr_started = 1) =>
             /\ ~pipe_open
             /\ pr.state = "ended" /\ pr.exited /\ pr.status = 0
        /\ (o_last = "finish_output" /\ o_pc = "exited") =>
             /\ o_status = "EXIT_TROUBLE"
             /\ \/ LastReport.text \in {<<"write failed">>, <<"waitpid">>}
                \/ /\ pr.state = "ended"
                   /\ LastReport.errnum = "0" => LastReport.text = ReportOfPr
                   /\ LastReport.errnum # "0" =>
                        LastReport.text = <<"subsidiary program failed">>)
  /\ [][FinishOutputStep =>
          /\ (outfile = "pipe" /\ ferr) =>
               /\ o_pc' = "exited" /\ o_status' = "EXIT_TROUBLE"
               /\ o_stderr' = Append(o_stderr, [errnum |-> "0", text |-> <<"write failed">>])
          /\ outfile # "pipe" =>
               /\ o_pc' = "compare" /\ outfile' = "nullptr"
               /\ UNCHANGED <<pr, pipe_open, o_stderr, o_status>>]_vars

\* Under -l pr could not be found: finish_output closed the pipe, waited
\* for pr and exited with the report of status 127.
C28_Witness ==
  /\ o_pc = "exited" /\ o_last = "finish_output"
  /\ o_paginate /\ ~pipe_open
  /\ pr = [state |-> "ended", exited |-> TRUE, status |-> 127]
  /\ LastReport = [errnum |-> "0", text |-> <<"subsidiary program not found">>]
  /\ o_status = "EXIT_TROUBLE"

====
